---- MODULE Spec2Model ----
(***************************************************************************)
(* Model of the host-link framing protocol engine                          *)
(* (src/right/src/config_parser/parse_config.h: serial_packet_read,        *)
(* serial_packet_write, serial_packet_abort, serial_packet_finalize,       *)
(* serial_send_ping_response and their helpers).                           *)
(*                                                                         *)
(* serial_packet_read and serial_packet_write block on the link: a call is *)
(* entered (CallRead, CallWrite), the peer puts packets on the link while  *)
(* the call waits for bytes (PeerSend), and the call returns (Return): the *)
(* whole handler is then run over the bytes the link has delivered; a read *)
(* that finds the link silent ends with the byte interface's timeout.  The *)
(* handlers that never read the link are one action each.  What a call     *)
(* hands to the byte interface's write is logged in out.                   *)
(***************************************************************************)
EXTENDS Integers, Sequences, FiniteSets, TLC

VARIABLES
    isAckNeeded,        \* g_serialContext.isAckNeeded
    isAckAbortNeeded,   \* g_serialContext.isAckAbortNeeded
    isBackToBackWrite,  \* g_serialContext.isBackToBackWrite
    framingPacket,      \* g_serialContext.framingPacket: the bytes of the last data packet built
    data,               \* g_serialContext.data: the payload bytes of the last packet read
    packetLength,       \* the caller's *packetLength
    rx,                 \* inbound link: the bytes delivered and not yet read
    call,               \* the arguments of the call in progress, NoCall when none is
    lastOp,             \* the handler entered last
    status,             \* its return value, NoStatus until it returns
    out,                \* what it handed to the link, in order: up to its first wait
                        \* for the link while it runs, all of it once it has returned
    \* the slave scheduler's table
    keyboardHalfIsConnected,  \* Slaves[SlaveId_LeftKeyboardHalf].isConnected
    ledDriverIsConnected,     \* Slaves[SlaveId_LeftLedDriver].isConnected
    \* one LED driver: LedDriverStates[ledDriverId]
    ledDriverId,
    ledDriverPhase,     \* .phase
    ledIndex,           \* .ledIndex
    sourceLedValues,    \* .sourceLedValues, element i of the C array at i + 1
    targetLedValues,    \* .targetLedValues, likewise
    ledWrite,           \* the I2cAsyncWrite of the last LedSlaveDriver_Update: the
                        \* bytes written, <<>> when it made none
    ledCalls,           \* LedSlaveDriver_Update calls made in phase Initialized since
                        \* the source table was last written (counted up to LedCallsCap)
    \* one module driver: uhkModuleStates[uhkModuleDriverId], UhkModuleVars[uhkModuleDriverId]
    uhkModuleDriverId,
    uhkModulePhase,     \* .phase
    uhkModuleSourceVars,  \* UhkModuleVars[id]: <<isTestLedOn, ledPwmBrightness>>
    uhkModuleTargetVars,  \* .targetVars, likewise
    keyCount,           \* .features.keyCount
    rxMessage,          \* .rxMessage: <<its crc is valid, its data[0]>>
    CurrentKeyStates,   \* the key-state table, all slots in a row, C element
                        \* [slot][key] at slot * MAX_KEY_COUNT_PER_MODULE + key + 1
    moduleOp            \* the last UhkModuleSlaveDriver_Update: <<its status, its bus
                        \* operation or <<>>, the cells of CurrentKeyStates it wrote>>

serialVars == <<isAckNeeded, isAckAbortNeeded, isBackToBackWrite, framingPacket, data,
                packetLength, rx, call, lastOp, status, out>>
slaveVars == <<keyboardHalfIsConnected, ledDriverIsConnected>>
ledVars == <<ledDriverId, ledDriverPhase, ledIndex, sourceLedValues, targetLedValues,
             ledWrite, ledCalls>>
moduleVars == <<uhkModuleDriverId, uhkModulePhase, uhkModuleSourceVars,
                uhkModuleTargetVars, keyCount, rxMessage, CurrentKeyStates, moduleOp>>

vars == <<serialVars, slaveVars, ledVars, moduleVars>>

----------------------------------------------------------------------------
(* Bounds of the model *)

\* packets the peer puts on the link during one call
MaxPeerPackets == 2
\* largest byteCount of a well-formed serial_packet_write call
MaxByteCount == 1
\* the link writes of one call up to which a write fault is injected
MaxFailAt == 2
\* longest payload of a packet sent round the loop from writer to reader
MaxLoopPayload == 2
\* chunks of PMW_REGISTER_UPDATE_CHUNK_SIZE brightness bytes in an LED table
LedChunkCount == 2
\* largest key count a module reports in its features
MaxKeyCount == 3

----------------------------------------------------------------------------
(* Program constants *)

kFramingPacketStartByte == 90
kHostMaxStartByteReadCount == 2
kOutgoingPacketBufferSize == 32
kIncomingPacketBufferSize == 32
kStatusGroup_Generic == 0
kStatusGroup_Bootloader == 100

kFramingPacketType ==
    [Ack |-> 161, Nak |-> 162, AckAbort |-> 163, Command |-> 164,
     Data |-> 165, Ping |-> 166, PingResponse |-> 167]

MAKE_STATUS(group, code) == group * 100 + code

kStatus_Success == MAKE_STATUS(kStatusGroup_Generic, 0)
kStatus_Fail == MAKE_STATUS(kStatusGroup_Generic, 1)
kStatus_InvalidArgument == MAKE_STATUS(kStatusGroup_Generic, 4)
kStatus_Timeout == MAKE_STATUS(kStatusGroup_Generic, 5)
kStatus_AbortDataPhase == MAKE_STATUS(kStatusGroup_Bootloader, 2)
kStatus_Ping == MAKE_STATUS(kStatusGroup_Bootloader, 3)

\* packet_type_t of the callers
kPacketType == [Command |-> "Command", Data |-> "Data"]

\* the fixed ping-response record: version {bugfix, minor, major, name}, options, crc16
k_PingResponse == <<0, 2, 1, 80, 0, 0, 170, 234>>

\* the entries of out: a buffer handed to byteInterface->write, and the
\* host_delay(100) of serial_packet_write
LinkWrite(buffer) == <<"write", buffer>>
HostDelay == <<"host_delay">>

\* on the inbound link: a read of the byte interface that reports a fault
\* (a value no byte has)
LinkError == 255 + 1

----------------------------------------------------------------------------
(* Program constants of the LED driver.  The table is scaled down: a chunk *)
(* of 3 brightness bytes, LedChunkCount chunks in the table.               *)

LedDriverId_Right == 0
LedDriverId_Left == 1

LedDriverPhase_SetFunctionFrame == "SetFunctionFrame"
LedDriverPhase_SetShutdownModeNormal == "SetShutdownModeNormal"
LedDriverPhase_SetFrame1 == "SetFrame1"
LedDriverPhase_InitLedControlRegisters == "InitLedControlRegisters"
LedDriverPhase_InitLedValues == "InitLedValues"
LedDriverPhase_Initialized == "Initialized"

PMW_REGISTER_UPDATE_CHUNK_SIZE == 3
LED_DRIVER_LED_COUNT == LedChunkCount * PMW_REGISTER_UPDATE_CHUNK_SIZE
PWM_REGISTER_BUFFER_LENGTH == 1 + PMW_REGISTER_UPDATE_CHUNK_SIZE
LED_CONTROL_REGISTERS_COMMAND_LENGTH == 19

LED_DRIVER_REGISTER_FRAME == 253
LED_DRIVER_REGISTER_SHUTDOWN == 10
LED_DRIVER_FRAME_FUNCTION == 11
LED_DRIVER_FRAME_1 == 0
SHUTDOWN_MODE_NORMAL == 1
FRAME_REGISTER_LED_CONTROL_FIRST == 0
FRAME_REGISTER_PWM_FIRST == 36

setFunctionFrameBuffer == <<LED_DRIVER_REGISTER_FRAME, LED_DRIVER_FRAME_FUNCTION>>
setShutdownModeNormalBuffer == <<LED_DRIVER_REGISTER_SHUTDOWN, SHUTDOWN_MODE_NORMAL>>
setFrame1Buffer == <<LED_DRIVER_REGISTER_FRAME, LED_DRIVER_FRAME_1>>

\* LedDriverStates[ledDriverId].setupLedControlRegistersCommand once
\* LedSlaveDriver_Init has run: byte 7 of the left driver's has the bit of the
\* ISO key's LED set
setupLedControlRegistersCommand(id) ==
    IF id = LedDriverId_Right
    THEN <<FRAME_REGISTER_LED_CONTROL_FIRST,
           127, 0, 127, 0, 127, 0, 127, 0, 122, 0, 0, 0, 0, 0, 0, 0, 0, 0>>
    ELSE <<FRAME_REGISTER_LED_CONTROL_FIRST,
           127, 63, 95, 63, 95, 63, 127, 31, 47, 31, 0, 31, 0, 31, 0, 31, 0, 31>>

\* the brightness values the producers write
LedBrightness == {0, 255}

\* a table of LED_DRIVER_LED_COUNT brightness bytes, all of them v
LedTable(v) == [i \in 1..LED_DRIVER_LED_COUNT |-> v]

----------------------------------------------------------------------------
(* Program constants of the module driver.  The key-state table is scaled  *)
(* down: MAX_KEY_COUNT_PER_MODULE keys in a slot.                          *)

UHK_MODULE_MAX_COUNT == 3
UhkModuleDriverId_LeftKeyboardHalf == 0
UhkModuleDriverId_LeftAddon == 1
UhkModuleDriverId_RightAddon == 2
SlaveId_LeftKeyboardHalf == 0

UhkModulePhase_RequestModuleFeatures == "RequestModuleFeatures"
UhkModulePhase_ReceiveModuleFeatures == "ReceiveModuleFeatures"
UhkModulePhase_ProcessModuleFeatures == "ProcessModuleFeatures"
UhkModulePhase_RequestKeyStates == "RequestKeyStates"
UhkModulePhase_ReceiveKeystates == "ReceiveKeystates"
UhkModulePhase_ProcessKeystates == "ProcessKeystates"
UhkModulePhase_SetTestLed == "SetTestLed"
UhkModulePhase_SetLedPwmBrightness == "SetLedPwmBrightness"

kStatusGroup_Uhk == 200
kStatus_Uhk_IdleSlave == MAKE_STATUS(kStatusGroup_Uhk, 0)
kStatus_Uhk_NoTransfer == MAKE_STATUS(kStatusGroup_Uhk, 1)

MAX_PWM_BRIGHTNESS == 100

SlaveCommand_RequestProperty == "SlaveCommand_RequestProperty"
SlaveProperty_Features == "SlaveProperty_Features"
SlaveCommand_RequestKeyStates == "SlaveCommand_RequestKeyStates"
SlaveCommand_SetTestLed == "SlaveCommand_SetTestLed"
SlaveCommand_SetLedPwmBrightness == "SlaveCommand_SetLedPwmBrightness"

SLOT_COUNT == UHK_MODULE_MAX_COUNT + 1
MAX_KEY_COUNT_PER_MODULE == 2

\* the memory of CurrentKeyStates[SLOT_COUNT][MAX_KEY_COUNT_PER_MODULE] and the
\* bytes that follow it, as far as a write of MaxKeyCount keys to the last
\* slot reaches; all keys released
KeyStatesCells == (SLOT_COUNT - 1) * MAX_KEY_COUNT_PER_MODULE + MaxKeyCount
KeyStatesReleased == [i \in 1..KeyStatesCells |-> 0]

----------------------------------------------------------------------------
(* CRC-16/XMODEM *)

RECURSIVE Xor(_, _, _)
Xor(a, b, bits) ==
    IF bits = 0 THEN 0
    ELSE ((a + b) % 2) + 2 * Xor(a \div 2, b \div 2, bits - 1)

RECURSIVE Crc16Shift(_, _)
Crc16Shift(crc, n) ==
    IF n = 0 THEN crc
    ELSE LET temp == (crc * 2) % 65536
         IN  Crc16Shift(IF crc >= 32768 THEN Xor(temp, 4129, 16) ELSE temp, n - 1)

Crc16Table == [hi \in 0..255 |-> Crc16Shift(hi * 256, 8)]

crc16_init == 0

RECURSIVE crc16_update(_, _)
crc16_update(crc, src) ==
    IF src = <<>> THEN crc
    ELSE crc16_update(
            Xor((crc % 256) * 256, Crc16Table[Xor(crc \div 256, Head(src), 8)], 16),
            Tail(src))

crc16_finalize(crc) == crc % 65536

\* a uint16_t in memory, little-endian
HalfwordBytes(h) == <<h % 256, h \div 256>>
Halfword(bytes) == bytes[1] + 256 * bytes[2]

\* faulty variant of calculate_framing_crc16 (for C11): the payload is left out
CrcOverHeaderOnly(startByte, packetType, length, payload) ==
    crc16_finalize(
        crc16_update(crc16_init, <<startByte, packetType>> \o HalfwordBytes(length)))

\* CRC over startByte, packetType, length and the payload
calculate_framing_crc16(startByte, packetType, length, payload) ==
    crc16_finalize(
        crc16_update(
            crc16_update(crc16_init, <<startByte, packetType>> \o HalfwordBytes(length)),
            SubSeq(payload, 1, length)))

----------------------------------------------------------------------------
(* The byte interface of the active peripheral.                            *)
(*                                                                         *)
(* A call works on a context c: the fields of g_serialContext it may       *)
(* change, the bytes the link delivers (c.link, read from c.pos on), the   *)
(* link writes made so far (c.out, c.nw) and the write fault of this call  *)
(* (c.failAt: the c.failAt-th link write returns kStatus_Fail, 0 = none).  *)
(* c.starved: a read found the link silent.  A helper returns the context  *)
(* it leaves together with its status_t and its out parameters.            *)

write_data(c, buffer) ==
    [c |-> [c EXCEPT !.out = Append(@, LinkWrite(buffer)), !.nw = @ + 1],
     status |-> IF c.nw + 1 = c.failAt THEN kStatus_Fail ELSE kStatus_Success]

\* the byte b read in front of the bytes of r
ByteRead(b, r) == [c |-> r.c, status |-> r.status, bytes |-> <<b>> \o r.bytes]

\* byteInterface->read: byteCount bytes, or an error when the link has none
\* left (kStatus_Timeout) or reports a fault (kStatus_Fail)
RECURSIVE read_data(_, _)
read_data(c, byteCount) ==
    IF byteCount = 0 THEN [c |-> c, status |-> kStatus_Success, bytes |-> <<>>]
    ELSE IF c.pos >= Len(c.link)
    THEN [c |-> [c EXCEPT !.starved = TRUE], status |-> kStatus_Timeout, bytes |-> <<>>]
    ELSE IF c.link[c.pos + 1] = LinkError
    THEN [c |-> [c EXCEPT !.pos = @ + 1], status |-> kStatus_Fail, bytes |-> <<>>]
    ELSE ByteRead(c.link[c.pos + 1], read_data([c EXCEPT !.pos = @ + 1], byteCount - 1))

----------------------------------------------------------------------------
(* Helpers of the framing engine *)

\* faulty variant of StartByteRead (for C10): the count of reads is not looked at
RECURSIVE StartByteReadUnbounded(_, _)
StartByteReadUnbounded(r, startByteReadCount) ==
    IF r.status # kStatus_Success THEN [c |-> r.c, status |-> r.status]
    ELSE IF r.bytes[1] # kFramingPacketStartByte
    THEN StartByteReadUnbounded(read_data(r.c, 1), startByteReadCount + 1)
    ELSE [c |-> r.c, status |-> kStatus_Success]

\* the do-while of read_start_byte: r is the read of one byte,
\* startByteReadCount the reads made before it
RECURSIVE StartByteRead(_, _)
StartByteRead(r, startByteReadCount) ==
    IF r.status # kStatus_Success THEN [c |-> r.c, status |-> r.status]
    ELSE IF startByteReadCount > kHostMaxStartByteReadCount
    THEN [c |-> r.c, status |-> kStatus_Timeout]
    ELSE IF r.bytes[1] # kFramingPacketStartByte
    THEN StartByteRead(read_data(r.c, 1), startByteReadCount + 1)
    ELSE [c |-> r.c, status |-> kStatus_Success]

read_start_byte(c) == StartByteRead(read_data(c, 1), 0)

\* header->packetType as read_data leaves it
PacketTypeRead(r) ==
    [c |-> r.c, status |-> r.status,
     packetType |-> IF r.status = kStatus_Success THEN r.bytes[1] ELSE 0]

\* read_header once read_start_byte has returned s
HeaderRead(s) ==
    IF s.status # kStatus_Success
    THEN [c |-> s.c, status |-> s.status, packetType |-> 0]
    ELSE PacketTypeRead(read_data(s.c, 1))

read_header(c) == HeaderRead(read_start_byte(c))

\* buffer.halfword as read_data leaves it
HalfwordRead(r) ==
    [c |-> r.c, status |-> r.status,
     halfword |-> IF r.status = kStatus_Success THEN Halfword(r.bytes) ELSE 0]

read_length(c) == HalfwordRead(read_data(c, 2))

read_crc16(c) == HalfwordRead(read_data(c, 2))

serial_packet_send_sync(c, framingPacketType) ==
    write_data([c EXCEPT !.isBackToBackWrite = TRUE],
               <<kFramingPacketStartByte, framingPacketType>>)

\* faulty variant of send_deferred_ack (for C1): the pending Ack is dropped
\* instead of sent
DeferredAckDropped(c) ==
    IF c.isAckNeeded
    THEN [c |-> [c EXCEPT !.isAckNeeded = FALSE], status |-> kStatus_Success]
    ELSE IF c.isAckAbortNeeded
    THEN serial_packet_send_sync([c EXCEPT !.isAckAbortNeeded = FALSE],
                                 kFramingPacketType.AckAbort)
    ELSE [c |-> c, status |-> kStatus_Success]

\* faulty variant of send_deferred_ack (for C26): the Ack is sent and stays
\* pending
DeferredAckLeftPending(c) ==
    IF c.isAckNeeded
    THEN serial_packet_send_sync(c, kFramingPacketType.Ack)
    ELSE IF c.isAckAbortNeeded
    THEN serial_packet_send_sync([c EXCEPT !.isAckAbortNeeded = FALSE],
                                 kFramingPacketType.AckAbort)
    ELSE [c |-> c, status |-> kStatus_Success]

send_deferred_ack(c) ==
    IF c.isAckNeeded
    THEN serial_packet_send_sync([c EXCEPT !.isAckNeeded = FALSE], kFramingPacketType.Ack)
    ELSE IF c.isAckAbortNeeded
    THEN serial_packet_send_sync([c EXCEPT !.isAckAbortNeeded = FALSE],
                                 kFramingPacketType.AckAbort)
    ELSE [c |-> c, status |-> kStatus_Success]

\* faulty variant of PingResponseAllowed (for C5): no reply to a Ping
PingResponseNever(c) == FALSE

\* the idle test of serial_send_ping_response
PingResponseAllowed(c) ==
    ~c.isAckNeeded \/ ~c.isBackToBackWrite \/ ~c.isAckAbortNeeded

\* the two byteInterface->write calls; their results are not looked at
serial_send_ping_response(c) ==
    [c |-> IF PingResponseAllowed(c)
           THEN write_data(
                    write_data(c, <<kFramingPacketStartByte,
                                    kFramingPacketType.PingResponse>>).c,
                    k_PingResponse).c
           ELSE c,
     status |-> kStatus_Ping]

MIN(a, b) == IF a < b THEN a ELSE b

\* the payload area: the bytes read, the rest of the length zero
RECURSIVE ZeroFill(_, _)
ZeroFill(bytes, length) ==
    IF Len(bytes) >= length THEN bytes ELSE ZeroFill(Append(bytes, 0), length)

ExpectedPacketType(packetType) ==
    IF packetType # kPacketType.Command
    THEN kFramingPacketType.Data
    ELSE kFramingPacketType.Command

\* what read_data_packet returns: the context, the status and the fields of
\* *packet read so far (fields not reached stay 0)
DataPacket(c, status_, packetType, length, crc16) ==
    [c |-> c, status |-> status_,
     packet |-> [packetType |-> packetType, length |-> length, crc16 |-> crc16]]

\* read_data_packet once the payload read has returned d
PayloadRead(d, packetType, length, crc16) ==
    DataPacket([d.c EXCEPT !.data = ZeroFill(d.bytes, length)], d.status,
               packetType, length, crc16)

\* read_data_packet once read_crc16 has returned k
Crc16Read(k, packetType, length) ==
    IF k.status # kStatus_Success
    THEN DataPacket(k.c, k.status, packetType, length, k.halfword)
    ELSE IF length > 0
    THEN PayloadRead(read_data(k.c, length), packetType, length, k.halfword)
    ELSE DataPacket(k.c, k.status, packetType, length, k.halfword)

\* read_data_packet once read_length has returned l
LengthRead(l, packetType) ==
    IF l.status # kStatus_Success
    THEN DataPacket(l.c, l.status, packetType, 0, 0)
    ELSE Crc16Read(read_crc16(l.c), packetType, MIN(kIncomingPacketBufferSize, l.halfword))

\* read_data_packet once read_header has returned h
PacketHeaderRead(h, packetType) ==
    IF h.status # kStatus_Success
    THEN DataPacket(h.c, h.status, h.packetType, 0, 0)
    ELSE IF h.packetType = kFramingPacketType.Ping
    THEN DataPacket(serial_send_ping_response(h.c).c, kStatus_Ping, h.packetType, 0, 0)
    ELSE IF h.packetType # ExpectedPacketType(packetType)
    THEN DataPacket(h.c, kStatus_Fail, h.packetType, 0, 0)
    ELSE LengthRead(read_length(h.c), h.packetType)

read_data_packet(c, packetType) == PacketHeaderRead(read_header(c), packetType)

\* faulty variant of PacketRead (for C7): a packet with a wrong crc16 is
\* handed to the caller
PacketReadUnchecked(r, packetType) ==
    IF r.status # kStatus_Success
    THEN [c |-> [r.c EXCEPT !.packetLength = 0], status |-> r.status]
    ELSE [c |-> [r.c EXCEPT !.isAckNeeded = TRUE, !.packetLength = r.packet.length],
          status |-> kStatus_Success]

\* the do-while of serial_packet_read: r is what read_data_packet returned
RECURSIVE PacketRead(_, _)
PacketRead(r, packetType) ==
    IF r.status # kStatus_Success
    THEN [c |-> [r.c EXCEPT !.packetLength = 0], status |-> r.status]
    ELSE IF r.packet.crc16 # calculate_framing_crc16(kFramingPacketStartByte,
                                 r.packet.packetType, r.packet.length, r.c.data)
    THEN PacketRead(
             read_data_packet(
                 [serial_packet_send_sync(r.c, kFramingPacketType.Nak).c
                      EXCEPT !.data = <<>>],
                 packetType),
             packetType)
    ELSE [c |-> [r.c EXCEPT !.isAckNeeded = TRUE, !.packetLength = r.packet.length],
          status |-> kStatus_Success]

\* serial_packet_read once send_deferred_ack has returned a
ReadDeferredAckSent(a, packetType) ==
    IF a.status # kStatus_Success THEN a
    ELSE PacketRead(read_data_packet([a.c EXCEPT !.data = <<>>], packetType), packetType)

\* packet, packetLength_: whether the caller's pointer is non-null
serial_packet_read(c, packet, packetLength_, packetType) ==
    IF ~packet \/ ~packetLength_
    THEN [c |-> c, status |-> kStatus_InvalidArgument]
    ELSE ReadDeferredAckSent(
             send_deferred_ack([c EXCEPT !.packetLength = 0,
                                         !.isBackToBackWrite = FALSE]),
             packetType)

\* the framing packet as it lies in memory and goes on the wire
FramingPacketBytes(startByte, packetType, length, crc16, payload) ==
    <<startByte, packetType>> \o HalfwordBytes(length) \o HalfwordBytes(crc16)
        \o SubSeq(payload, 1, length)

\* header.packetType of the framing packet serial_packet_write builds
FramingPacketType(packetType) ==
    IF packetType # kPacketType.Command
    THEN kFramingPacketType.Data
    ELSE kFramingPacketType.Command

\* g_serialContext.framingPacket as serial_packet_write fills it
BuildFramingPacket(packet, byteCount, packetType) ==
    FramingPacketBytes(kFramingPacketStartByte, FramingPacketType(packetType), byteCount,
        calculate_framing_crc16(kFramingPacketStartByte, FramingPacketType(packetType),
                                byteCount, packet),
        packet)

\* write_data of g_serialContext.framingPacket
WriteFramingPacket(c) == write_data(c, c.framingPacket)

RECURSIVE wait_for_ack_packet(_)

\* once the framing packet has been written with result w
FramingPacketWritten(w) ==
    IF w.status # kStatus_Success THEN w ELSE wait_for_ack_packet(w.c)

\* faulty variant of SyncHeaderRead (for C2): a Nak is waited out, the packet
\* is not sent again
SyncHeaderReadNoRetransmit(h) ==
    IF h.status # kStatus_Success THEN [c |-> h.c, status |-> h.status]
    ELSE IF /\ h.packetType # kFramingPacketType.Ack
            /\ h.packetType # kFramingPacketType.Nak
            /\ h.packetType # kFramingPacketType.AckAbort
    THEN [c |-> h.c, status |-> kStatus_InvalidArgument]
    ELSE IF h.packetType = kFramingPacketType.AckAbort
    THEN [c |-> h.c, status |-> kStatus_AbortDataPhase]
    ELSE IF h.packetType = kFramingPacketType.Nak
    THEN wait_for_ack_packet(h.c)
    ELSE [c |-> h.c, status |-> kStatus_Success]

\* faulty variant of SyncHeaderRead (for C3): an AckAbort is taken for an Ack
SyncHeaderReadAbortAsAck(h) ==
    IF h.status # kStatus_Success THEN [c |-> h.c, status |-> h.status]
    ELSE IF /\ h.packetType # kFramingPacketType.Ack
            /\ h.packetType # kFramingPacketType.Nak
            /\ h.packetType # kFramingPacketType.AckAbort
    THEN [c |-> h.c, status |-> kStatus_InvalidArgument]
    ELSE IF h.packetType = kFramingPacketType.Nak
    THEN FramingPacketWritten(WriteFramingPacket(h.c))
    ELSE [c |-> h.c, status |-> kStatus_Success]

\* faulty variant of SyncHeaderRead (for C4): an unexpected packet type is
\* answered like a Nak, with the packet sent again
SyncHeaderReadUnexpectedAsNak(h) ==
    IF h.status # kStatus_Success THEN [c |-> h.c, status |-> h.status]
    ELSE IF h.packetType = kFramingPacketType.AckAbort
    THEN [c |-> h.c, status |-> kStatus_AbortDataPhase]
    ELSE IF h.packetType # kFramingPacketType.Ack
    THEN FramingPacketWritten(WriteFramingPacket(h.c))
    ELSE [c |-> h.c, status |-> kStatus_Success]

\* the do-while of wait_for_ack_packet once read_header has returned h
SyncHeaderRead(h) ==
    IF h.status # kStatus_Success THEN [c |-> h.c, status |-> h.status]
    ELSE IF /\ h.packetType # kFramingPacketType.Ack
            /\ h.packetType # kFramingPacketType.Nak
            /\ h.packetType # kFramingPacketType.AckAbort
    THEN [c |-> h.c, status |-> kStatus_InvalidArgument]
    ELSE IF h.packetType = kFramingPacketType.AckAbort
    THEN [c |-> h.c, status |-> kStatus_AbortDataPhase]
    ELSE IF h.packetType = kFramingPacketType.Nak
    THEN FramingPacketWritten(WriteFramingPacket(h.c))
    ELSE [c |-> h.c, status |-> kStatus_Success]

wait_for_ack_packet(c) == SyncHeaderRead(read_header(c))

\* faulty variant of BackToBackDelay (for C9): no delay is made
BackToBackDelayNever(c) == [c EXCEPT !.isBackToBackWrite = FALSE]

\* the delay of a back-to-back write
BackToBackDelay(c) ==
    IF c.isBackToBackWrite
    THEN [c EXCEPT !.isBackToBackWrite = FALSE, !.out = Append(@, HostDelay)]
    ELSE c

\* serial_packet_write once send_deferred_ack has returned a
WriteDeferredAckSent(a, packet, byteCount, packetType) ==
    IF a.status # kStatus_Success THEN a
    ELSE FramingPacketWritten(
             WriteFramingPacket(
                 [BackToBackDelay(a.c) EXCEPT !.framingPacket =
                      BuildFramingPacket(packet, byteCount, packetType)]))

\* packet: the caller's buffer, <<>> for a null pointer
serial_packet_write(c, packet, byteCount, packetType) ==
    IF packet = <<>> \/ byteCount > kOutgoingPacketBufferSize
    THEN [c |-> c, status |-> kStatus_InvalidArgument]
    ELSE WriteDeferredAckSent(send_deferred_ack(c), packet, byteCount, packetType)

\* faulty variant of serial_packet_abort (for C8): the pending Ack stays pending
AbortKeepsAck(c) == [c EXCEPT !.isAckAbortNeeded = TRUE]

serial_packet_abort(c) ==
    [c EXCEPT !.isAckAbortNeeded = TRUE, !.isAckNeeded = FALSE]

serial_packet_finalize(c) == send_deferred_ack(c)

----------------------------------------------------------------------------
(* The peer *)

SyncPacket(packetType) == <<kFramingPacketStartByte, packetType>>

\* a Command or Data packet as the peer frames it, its crc16 right or off by one
PeerDataPacket(packetType, payload, crcOk) ==
    LET crc == calculate_framing_crc16(kFramingPacketStartByte, packetType,
                                       Len(payload), payload)
    IN  FramingPacketBytes(kFramingPacketStartByte, packetType, Len(payload),
                           IF crcOk THEN crc ELSE (crc + 1) % 65536, payload)

PeerPayload == <<3>>

\* what the peer can put on the link: a stray byte, a fault of the link, the
\* sync packets, a Command packet with a good and with a bad crc16, a Data
\* packet, and a Ping with a Command packet right behind it
PeerPackets ==
    {<<0>>, <<LinkError>>}
    \cup {SyncPacket(kFramingPacketType[t]) :
              t \in {"Ack", "Nak", "AckAbort", "Ping"}}
    \cup {PeerDataPacket(kFramingPacketType.Command, PeerPayload, ok) : ok \in BOOLEAN}
    \cup {PeerDataPacket(kFramingPacketType.Data, PeerPayload, TRUE)}
    \cup {SyncPacket(kFramingPacketType.Ping)
              \o PeerDataPacket(kFramingPacketType.Command, PeerPayload, TRUE)}

----------------------------------------------------------------------------
(* The state machine *)

\* the caller's buffer of serial_packet_write
CallerBuffer == <<7, 9>>

NoCall == <<"none">>

\* the arguments of a call in progress; `length` is the packetLength pointer of
\* a read (non-null or not) and the byteCount of a write; `delivered` counts
\* the packets the peer has put on the link during the call
Frame(op, packet, length, packetType, failAt, delivered) ==
    <<op, packet, length, packetType, failAt, delivered>>
FrameOp(frame) == frame[1]
FramePacket(frame) == frame[2]
FrameLength(frame) == frame[3]
FramePacketType(frame) == frame[4]
FrameFailAt(frame) == frame[5]
FrameDelivered(frame) == frame[6]

\* no return value: the call has not returned, or the handler returns void
NoStatus == 0 - 1

\* the static state of the slave table and of the drivers
SlavesAtRest ==
    /\ keyboardHalfIsConnected = FALSE
    /\ ledDriverIsConnected = FALSE

NoDriver == 0 - 1

LedDriverAtRest ==
    /\ ledDriverId = NoDriver
    /\ ledDriverPhase = LedDriverPhase_SetFunctionFrame
    /\ ledIndex = 0
    /\ sourceLedValues = LedTable(0)
    /\ targetLedValues = LedTable(0)
    /\ ledWrite = <<>>
    /\ ledCalls = 0

ModuleDriverAtRest ==
    /\ uhkModuleDriverId = NoDriver
    /\ uhkModulePhase = UhkModulePhase_RequestModuleFeatures
    /\ uhkModuleSourceVars = <<FALSE, 0>>
    /\ uhkModuleTargetVars = <<FALSE, 0>>
    /\ keyCount = 0
    /\ rxMessage = <<FALSE, 0>>
    /\ CurrentKeyStates = KeyStatesReleased
    /\ moduleOp = <<NoStatus, <<>>, {}>>

\* the host link before its first call
LinkAtRest ==
    /\ isAckNeeded = FALSE
    /\ isAckAbortNeeded = FALSE
    /\ isBackToBackWrite = FALSE
    /\ framingPacket = <<0, 0, 0, 0, 0, 0>>
    /\ data = <<>>
    /\ packetLength = 0
    /\ rx = <<>>
    /\ call = NoCall
    /\ lastOp = "init"
    /\ status = NoStatus
    /\ out = <<>>

Init == LinkAtRest /\ SlavesAtRest /\ LedDriverAtRest /\ ModuleDriverAtRest

\* the context of a call made in the current state, the link holding `link`
Context(failAt, link) ==
    [isAckNeeded |-> isAckNeeded, isAckAbortNeeded |-> isAckAbortNeeded,
     isBackToBackWrite |-> isBackToBackWrite, framingPacket |-> framingPacket,
     data |-> data, packetLength |-> packetLength,
     link |-> link, pos |-> 0, starved |-> FALSE,
     out |-> <<>>, nw |-> 0, failAt |-> failAt]

\* the blocking call `frame`, run over the bytes `link` delivered to it so far
Run(frame, link) ==
    IF FrameOp(frame) = "read"
    THEN serial_packet_read(Context(FrameFailAt(frame), link), FramePacket(frame),
                            FrameLength(frame), FramePacketType(frame))
    ELSE serial_packet_write(Context(FrameFailAt(frame), link), FramePacket(frame),
                             FrameLength(frame), FramePacketType(frame))

\* the state a call leaves
Returned(op, r) ==
    /\ isAckNeeded' = r.c.isAckNeeded
    /\ isAckAbortNeeded' = r.c.isAckAbortNeeded
    /\ isBackToBackWrite' = r.c.isBackToBackWrite
    /\ framingPacket' = r.c.framingPacket
    /\ data' = r.c.data
    /\ packetLength' = r.c.packetLength
    /\ rx' = SubSeq(rx, r.c.pos + 1, Len(rx))
    /\ call' = NoCall
    /\ lastOp' = op
    /\ status' = r.status
    /\ out' = r.c.out
    /\ UNCHANGED <<slaveVars, ledVars, moduleVars>>

session == <<isAckNeeded, isAckAbortNeeded, isBackToBackWrite, framingPacket, data,
             packetLength>>

\* a blocking call is entered and runs until it first waits for the link
Entered(frame) ==
    /\ call' = frame
    /\ lastOp' = FrameOp(frame)
    /\ status' = NoStatus
    /\ out' = Run(frame, rx).c.out
    /\ UNCHANGED <<session, rx, slaveVars, ledVars, moduleVars>>

\* the link writes of a call that may be made to fail: none when the call is
\* rejected before it reaches the link
FailAts(reachesLink) == IF reachesLink THEN 0..MaxFailAt ELSE {0}

CallRead ==
    /\ call = NoCall
    /\ \E packet, packetLength_ \in BOOLEAN, packetType \in {"Command", "Data"} :
        \E failAt \in FailAts(packet /\ packetLength_) :
            Entered(Frame("read", packet, packetLength_, packetType, failAt, 0))

CallWrite ==
    /\ call = NoCall
    /\ \E packet \in {<<>>, CallerBuffer},
          byteCount \in 1..MaxByteCount \cup {kOutgoingPacketBufferSize + 1},
          packetType \in {"Command", "Data"} :
        \E failAt \in FailAts(packet # <<>> /\ byteCount <= kOutgoingPacketBufferSize) :
            Entered(Frame("write", packet, byteCount, packetType, failAt, 0))

\* the peer puts a packet on the link while the call waits for bytes
PeerSend ==
    /\ call # NoCall
    /\ FrameDelivered(call) < MaxPeerPackets
    /\ Run(call, rx).c.starved
    /\ \E p \in PeerPackets : rx' = rx \o p
    /\ call' = [call EXCEPT ![6] = @ + 1]
    /\ UNCHANGED <<session, lastOp, status, out, slaveVars, ledVars, moduleVars>>

\* the call in progress returns: with the byte interface's timeout when the
\* link stays silent, else with what the bytes delivered make it return
Return ==
    /\ call # NoCall
    /\ Returned(FrameOp(call), Run(call, rx))

Abort ==
    /\ call = NoCall
    /\ isAckNeeded
    /\ Returned("abort", [c |-> serial_packet_abort(Context(0, rx)), status |-> NoStatus])

Finalize ==
    /\ call = NoCall
    /\ \E failAt \in 0..MaxFailAt :
        Returned("finalize", serial_packet_finalize(Context(failAt, rx)))

PingResponse ==
    /\ call = NoCall
    /\ \E failAt \in 0..MaxFailAt :
        Returned("ping_response", serial_send_ping_response(Context(failAt, rx)))

Next ==
    \/ CallRead \/ CallWrite \/ PeerSend \/ Return
    \/ Abort \/ Finalize \/ PingResponse

Spec == Init /\ [][Next]_vars

----------------------------------------------------------------------------
(* The LED driver (src/shared/slave_protocol.h).  One driver instance is   *)
(* followed: LedSlaveDriver_Update reads and writes LedDriverStates of its *)
(* own ledDriverId only.  A result of it is <<phase, ledIndex,             *)
(* targetLedValues, the bytes of its I2cAsyncWrite or <<>>>>.              *)

lastLedChunkStartIndex == LED_DRIVER_LED_COUNT - PMW_REGISTER_UPDATE_CHUNK_SIZE

\* sourceLedValues[index] != targetLedValues[index]
LedDiffers(source, target, index) == source[index + 1] # target[index + 1]

\* faulty variant of ScanStartLedIndex (for C14): the scan starts at the
\* cursor, wherever it is
ScanFromCursor(index) == index

\* where the scan for the first differing LED starts
ScanStartLedIndex(index) ==
    IF index > lastLedChunkStartIndex THEN lastLedChunkStartIndex ELSE index

\* if (++startLedIndex >= LED_DRIVER_LED_COUNT) startLedIndex = 0, as a table
NextStartLedIndex ==
    [startLedIndex \in 0..(LED_DRIVER_LED_COUNT - 1) |->
        IF startLedIndex + 1 >= LED_DRIVER_LED_COUNT THEN 0 ELSE startLedIndex + 1]

\* the scan loop: <<startLedIndex, count>> when it ends
RECURSIVE ScanForStartLedIndex(_, _, _, _)
ScanForStartLedIndex(startLedIndex, count, source, target) ==
    IF count >= LED_DRIVER_LED_COUNT THEN <<startLedIndex, count>>
    ELSE IF LedDiffers(source, target, startLedIndex) THEN <<startLedIndex, count>>
    ELSE ScanForStartLedIndex(NextStartLedIndex[startLedIndex],
                              count + 1, source, target)

MaxChunkSize(startLedIndex) ==
    MIN(LED_DRIVER_LED_COUNT - startLedIndex, PMW_REGISTER_UPDATE_CHUNK_SIZE)

\* faulty variant of LastDifferingLedIndex (for C12, C14): the run ends where
\* it starts
RunOfOneLed(index, maxEndLedIndex, endLedIndex, source, target) == endLedIndex

\* the loop over index = startLedIndex .. maxEndLedIndex: endLedIndex when it ends
RECURSIVE LastDifferingLedIndex(_, _, _, _, _)
LastDifferingLedIndex(index, maxEndLedIndex, endLedIndex, source, target) ==
    IF index > maxEndLedIndex THEN endLedIndex
    ELSE LastDifferingLedIndex(index + 1, maxEndLedIndex,
             IF LedDiffers(source, target, index) THEN index ELSE endLedIndex,
             source, target)

EndLedIndex(startLedIndex, source, target) ==
    LastDifferingLedIndex(startLedIndex,
        startLedIndex + MaxChunkSize(startLedIndex) - 1, startLedIndex, source, target)

\* faulty variant of LedValuesCopied (for C21): the whole table is copied
LedValuesCopiedWhole(source, target, startLedIndex, length) == source

\* memcpy of `length` bytes from sourceLedValues + startLedIndex into targetLedValues
LedValuesCopied(source, target, startLedIndex, length) ==
    SubSeq(target, 1, startLedIndex)
        \o SubSeq(source, startLedIndex + 1, startLedIndex + length)
        \o SubSeq(target, startLedIndex + length + 1, LED_DRIVER_LED_COUNT)

\* faulty variant of LedIndexAdvanced (for C22): the cursor stays where it is
LedIndexHeld(index, n) == index

\* *ledIndex += n, a uint8_t, reset to 0 at the table length
LedIndexAdvanced(index, n) ==
    IF (index + n) % 256 >= LED_DRIVER_LED_COUNT THEN 0 ELSE (index + n) % 256

\* phase Initialized once the run startLedIndex..endLedIndex is chosen
RunTransmitted(index, source, target, startLedIndex, endLedIndex) ==
    <<LedDriverPhase_Initialized,
      LedIndexAdvanced(index, endLedIndex - startLedIndex + 1),
      LedValuesCopied(source, target, startLedIndex, endLedIndex - startLedIndex + 1),
      <<(FRAME_REGISTER_PWM_FIRST + startLedIndex) % 256>>
          \o SubSeq(source, startLedIndex + 1, endLedIndex + 1)>>

\* phase Initialized once the scan has ended with found = <<startLedIndex, count>>
StartLedIndexScanned(index, source, target, found) ==
    IF ~(found[2] < LED_DRIVER_LED_COUNT)
    THEN <<LedDriverPhase_Initialized, 0, target, <<>>>>
    ELSE RunTransmitted(index, source, target, found[1],
                        EndLedIndex(found[1], source, target))

\* faulty variant of LedValuesInitialized (for C13, C18): the cursor advances by
\* one byte more than the chunk sent
LedValuesInitializedOverlong(index, source, target) ==
    <<IF index + PMW_REGISTER_UPDATE_CHUNK_SIZE + 1 >= LED_DRIVER_LED_COUNT
          THEN LedDriverPhase_Initialized ELSE LedDriverPhase_InitLedValues,
      LedIndexAdvanced(index, PMW_REGISTER_UPDATE_CHUNK_SIZE + 1),
      target,
      <<(FRAME_REGISTER_PWM_FIRST + index) % 256>>
          \o [i \in 1..PMW_REGISTER_UPDATE_CHUNK_SIZE |->
                 IF index + i <= LED_DRIVER_LED_COUNT THEN source[index + i] ELSE 0]>>

\* phase InitLedValues
LedValuesInitialized(index, source, target) ==
    <<IF index + PMW_REGISTER_UPDATE_CHUNK_SIZE >= LED_DRIVER_LED_COUNT
          THEN LedDriverPhase_Initialized ELSE LedDriverPhase_InitLedValues,
      LedIndexAdvanced(index, PMW_REGISTER_UPDATE_CHUNK_SIZE),
      target,
      <<(FRAME_REGISTER_PWM_FIRST + index) % 256>>
          \o SubSeq(source, index + 1, index + PMW_REGISTER_UPDATE_CHUNK_SIZE)>>

\* faulty variant of FunctionFrameSet (for C18, C19): the frame is selected
\* whether the keyboard half is connected or not
FunctionFrameSetAlways(id, index, target, halfIsConnected) ==
    <<LedDriverPhase_SetShutdownModeNormal, index, target, setFunctionFrameBuffer>>

\* phase SetFunctionFrame
FunctionFrameSet(id, index, target, halfIsConnected) ==
    IF id = LedDriverId_Left /\ ~halfIsConnected
    THEN <<LedDriverPhase_SetFunctionFrame, index, target, <<>>>>
    ELSE <<LedDriverPhase_SetShutdownModeNormal, index, target, setFunctionFrameBuffer>>

LedSlaveDriver_Update(id, phase, index, source, target, halfIsConnected) ==
    CASE phase = LedDriverPhase_SetFunctionFrame ->
            FunctionFrameSet(id, index, target, halfIsConnected)
      [] phase = LedDriverPhase_SetShutdownModeNormal ->
            <<LedDriverPhase_SetFrame1, index, target, setShutdownModeNormalBuffer>>
      [] phase = LedDriverPhase_SetFrame1 ->
            <<LedDriverPhase_InitLedControlRegisters, index, target, setFrame1Buffer>>
      [] phase = LedDriverPhase_InitLedControlRegisters ->
            <<LedDriverPhase_InitLedValues, index, target,
              SubSeq(setupLedControlRegistersCommand(id), 1,
                     LED_CONTROL_REGISTERS_COMMAND_LENGTH)>>
      [] phase = LedDriverPhase_InitLedValues ->
            LedValuesInitialized(index, source, target)
      [] phase = LedDriverPhase_Initialized ->
            StartLedIndexScanned(index, source, target,
                ScanForStartLedIndex(ScanStartLedIndex(index), 0, source, target))

\* ledCalls counts no further
LedCallsCap == LedChunkCount + 2

\* the state an LedSlaveDriver_Update that returns r leaves
LedUpdated(r) ==
    /\ ledDriverPhase' = r[1]
    /\ ledIndex' = r[2]
    /\ targetLedValues' = r[3]
    /\ ledWrite' = r[4]
    /\ ledCalls' = IF ledDriverPhase = LedDriverPhase_Initialized
                   THEN MIN(ledCalls + 1, LedCallsCap) ELSE ledCalls
    /\ lastOp' = "LedSlaveDriver_Update"
    /\ UNCHANGED <<ledDriverId, sourceLedValues>>

LedUpdate ==
    /\ ledDriverId # NoDriver
    /\ \E r \in {LedSlaveDriver_Update(ledDriverId, ledDriverPhase, ledIndex,
                      sourceLedValues, targetLedValues, keyboardHalfIsConnected)} :
           LedUpdated(r)
    /\ UNCHANGED <<session, rx, call, status, out, slaveVars, moduleVars>>

\* LedSlaveDriver_Init; SetLeds(0xff) fills the source table.  The entries
\* LedDisplay_SetText then writes are not followed: the table stays as SetLeds
\* left it until a producer writes it
LedInit ==
    /\ \E id \in {LedDriverId_Right, LedDriverId_Left} :
        /\ ledDriverId \in {NoDriver, id}
        /\ ledDriverId' = id
    /\ ledDriverPhase' = LedDriverPhase_SetFunctionFrame
    /\ ledIndex' = 0
    /\ targetLedValues' = LedTable(0)
    /\ sourceLedValues' = LedTable(255)
    /\ ledWrite' = <<>>
    /\ ledCalls' = 0
    /\ lastOp' = "LedSlaveDriver_Init"
    /\ UNCHANGED <<session, rx, call, status, out, slaveVars, moduleVars>>

\* SetLeds, called by a producer of the source table
SetLeds ==
    /\ ledDriverId # NoDriver
    /\ \E ledBrightness \in LedBrightness :
        /\ sourceLedValues # LedTable(ledBrightness)
        /\ sourceLedValues' = LedTable(ledBrightness)
    /\ ledCalls' = 0
    /\ ledWrite' = <<>>
    /\ lastOp' = "SetLeds"
    /\ UNCHANGED <<ledDriverId, ledDriverPhase, ledIndex, targetLedValues>>
    /\ UNCHANGED <<session, rx, call, status, out, slaveVars, moduleVars>>

\* the scheduler records that the left keyboard half answers, or whether the
\* left LED driver answered its last transfer
SlaveConnection ==
    /\ \/ ~keyboardHalfIsConnected /\ keyboardHalfIsConnected' = TRUE
          /\ UNCHANGED ledDriverIsConnected
       \/ ledDriverIsConnected' = ~ledDriverIsConnected
          /\ UNCHANGED keyboardHalfIsConnected
    /\ lastOp' = "SlaveConnection"
    /\ UNCHANGED <<session, rx, call, status, out, ledVars, moduleVars>>

\* faulty variant of UhkModuleSlaveDriver_Disconnect (for C19): the flag is
\* cleared whichever module disconnects
DisconnectOfAny(id, isConnected) == FALSE

\* UhkModuleSlaveDriver_Disconnect: Slaves[SlaveId_LeftLedDriver].isConnected after it
UhkModuleSlaveDriver_Disconnect(id, isConnected) ==
    IF id = SlaveId_LeftKeyboardHalf THEN FALSE ELSE isConnected

\* the scheduler detects the fault of a module: it marks the module not
\* connected and calls its disconnect handler
Disconnect ==
    /\ \E id \in 0..(UHK_MODULE_MAX_COUNT - 1) :
        /\ id = UhkModuleDriverId_LeftKeyboardHalf => keyboardHalfIsConnected
        /\ keyboardHalfIsConnected' =
               IF id = UhkModuleDriverId_LeftKeyboardHalf THEN FALSE
               ELSE keyboardHalfIsConnected
        /\ uhkModuleDriverId' = id
        /\ ledDriverIsConnected' = UhkModuleSlaveDriver_Disconnect(id, ledDriverIsConnected)
    /\ lastOp' = "UhkModuleSlaveDriver_Disconnect"
    /\ UNCHANGED <<ledVars, session, rx, call, status, out>>
    /\ UNCHANGED <<uhkModulePhase, uhkModuleSourceVars, uhkModuleTargetVars, keyCount,
                   rxMessage, CurrentKeyStates, moduleOp>>

LedNext ==
    \/ LedInit \/ LedUpdate \/ SetLeds \/ SlaveConnection \/ Disconnect

LedSpec == Init /\ [][LedNext]_vars

\* an LED driver that pushes its table: at the start of phase InitLedValues,
\* the target table as LedSlaveDriver_Init left it, or in phase Initialized,
\* the cursor anywhere in the table and the target table as the driver has
\* filled it; the producers have written any source table
LedSyncInit ==
    /\ LinkAtRest /\ SlavesAtRest /\ ModuleDriverAtRest
    /\ ledDriverId \in {LedDriverId_Right, LedDriverId_Left}
    /\ sourceLedValues \in [1..LED_DRIVER_LED_COUNT -> LedBrightness]
    /\ \/ /\ ledDriverPhase = LedDriverPhase_InitLedValues
          /\ ledIndex = 0
          /\ targetLedValues = LedTable(0)
       \/ /\ ledDriverPhase = LedDriverPhase_Initialized
          /\ ledIndex \in 0..(LED_DRIVER_LED_COUNT - 1)
          /\ targetLedValues \in {LedTable(v) : v \in LedBrightness}
    /\ ledWrite = <<>>
    /\ ledCalls = 0

\* the source table is written no more
LedSyncNext == LedUpdate /\ ledCalls < LedCallsCap

LedSyncSpec == LedSyncInit /\ [][LedSyncNext]_vars

\* the entries a producer keeps writing while the driver pushes the table:
\* the first entry of the first and of the last chunk
LedValuesRewritten == {0, LED_DRIVER_LED_COUNT - PMW_REGISTER_UPDATE_CHUNK_SIZE}

\* a producer writes one entry of the source table
SetLedValue ==
    /\ ledDriverId # NoDriver
    /\ \E i \in LedValuesRewritten, ledBrightness \in LedBrightness :
        /\ sourceLedValues[i + 1] # ledBrightness
        /\ sourceLedValues' = [sourceLedValues EXCEPT ![i + 1] = ledBrightness]
    /\ ledWrite' = <<>>
    /\ ledCalls' = 0
    /\ lastOp' = "SetLedValue"
    /\ UNCHANGED <<ledDriverId, ledDriverPhase, ledIndex, targetLedValues>>
    /\ UNCHANGED <<session, rx, call, status, out, slaveVars, moduleVars>>

\* a driver that has just reached phase Initialized: the cursor is back at 0,
\* the target table is as LedSlaveDriver_Init left it, the source table is any
LedLiveInit ==
    /\ LedSyncInit
    /\ ledDriverId = LedDriverId_Right
    /\ ledDriverPhase = LedDriverPhase_Initialized
    /\ targetLedValues = LedTable(0)
    /\ ledIndex = 0

LedLiveNext == LedUpdate \/ SetLedValue

\* the scheduler keeps calling LedSlaveDriver_Update; the producers write
\* when they please
LedLiveSpec == LedLiveInit /\ [][LedLiveNext]_vars /\ WF_vars(LedUpdate)

----------------------------------------------------------------------------
(* The module driver (src/right/src/slave_drivers/uhk_module_driver.c).    *)
(* One driver instance is followed: UhkModuleSlaveDriver_Update reads and  *)
(* writes uhkModuleStates and UhkModuleVars of its own uhkModuleDriverId;  *)
(* the key-state table is shared by all of them.  A result of it is        *)
(* <<status, phase, targetVars, features.keyCount, CurrentKeyStates, its   *)
(* bus operation or <<>>, the cells of CurrentKeyStates it wrote>>.        *)

\* what I2cAsyncWriteMessage and I2cAsyncReadMessage return
BusStatuses == {kStatus_Success, kStatus_Fail}

\* data[0] of the messages a module sends: its key count in a features
\* message, its keys, a bit each, in a key-states message
MessageData == 0..MaxKeyCount

\* the messages the bus layer leaves in rxMessage
Messages == BOOLEAN \X MessageData

CRC16_IsMessageValid(message) == message[1]

\* the values the producers write to UhkModuleVars
ModuleVars == BOOLEAN \X {0, MAX_PWM_BRIGHTNESS}

\* bit i of a byte
BoolBit(byte, i) == (byte \div (2 ^ i)) % 2

\* BoolBitsToBytes(srcBytes, dstBytes, count) with dstBytes at cell `first` of
\* the table: the table after it
BoolBitsToBytes(srcBytes, keys, first, count) ==
    [cell \in 1..KeyStatesCells |->
        IF cell \in first..(first + count - 1)
        THEN BoolBit(srcBytes, cell - first) ELSE keys[cell]]

\* the cell of CurrentKeyStates[slotId][0]
SlotStart(slotId) == slotId * MAX_KEY_COUNT_PER_MODULE + 1

\* the cells of CurrentKeyStates[slotId]
SlotCells(slotId) == SlotStart(slotId)..(SlotStart(slotId) + MAX_KEY_COUNT_PER_MODULE - 1)

\* faulty variant of ModuleFeaturesProcessed (for C17): the features are
\* requested again
ModuleFeaturesRequestedAgain(count, message) ==
    <<UhkModulePhase_RequestModuleFeatures, count>>

\* phase ProcessModuleFeatures: <<phase, features.keyCount>> after it
ModuleFeaturesProcessed(count, message) ==
    <<UhkModulePhase_RequestKeyStates,
      IF CRC16_IsMessageValid(message) THEN message[2] ELSE count>>

\* faulty variant of KeystatesProcessed (for C25): the message is unpacked
\* whether its crc is valid or not
KeystatesProcessedUnchecked(id, count, message, keys) ==
    <<BoolBitsToBytes(message[2], keys, (id + 1) * MAX_KEY_COUNT_PER_MODULE + 1, count),
      ((id + 1) * MAX_KEY_COUNT_PER_MODULE + 1)..((id + 1) * MAX_KEY_COUNT_PER_MODULE + count)>>

\* phase ProcessKeystates: <<CurrentKeyStates, the cells written>> after it
KeystatesProcessed(id, count, message, keys) ==
    IF CRC16_IsMessageValid(message)
    THEN LET slotId == id + 1
         IN <<BoolBitsToBytes(message[2], keys, SlotStart(slotId), count),
              SlotStart(slotId)..(SlotStart(slotId) + count - 1)>>
    ELSE <<keys, {}>>

\* faulty variant of TestLedSet (for C15): the test LED is set at every pass
TestLedSetAtEveryPass(source, target, txStatus) ==
    <<txStatus, <<source[1], target[2]>>,
      <<"tx", SlaveCommand_SetTestLed, source[1]>>>>

\* phase SetTestLed: <<status, targetVars, bus operation>> after it
TestLedSet(source, target, txStatus) ==
    IF source[1] = target[1]
    THEN <<kStatus_Uhk_NoTransfer, target, <<>>>>
    ELSE <<txStatus, <<source[1], target[2]>>,
           <<"tx", SlaveCommand_SetTestLed, source[1]>>>>

\* phase SetLedPwmBrightness: <<status, targetVars, bus operation>> after it
LedPwmBrightnessSet(source, target, txStatus) ==
    IF source[2] = target[2]
    THEN <<kStatus_Uhk_NoTransfer, target, <<>>>>
    ELSE <<txStatus, <<target[1], source[2]>>,
           <<"tx", SlaveCommand_SetLedPwmBrightness, source[2]>>>>

UhkModuleSlaveDriver_Update(id, phase, source, target, count, message, keys, busStatus) ==
    CASE phase = UhkModulePhase_RequestModuleFeatures ->
            <<busStatus, UhkModulePhase_ReceiveModuleFeatures, target, count, keys,
              <<"tx", SlaveCommand_RequestProperty, SlaveProperty_Features>>, {}>>
      [] phase = UhkModulePhase_ReceiveModuleFeatures ->
            <<busStatus, UhkModulePhase_ProcessModuleFeatures, target, count, keys,
              <<"rx">>, {}>>
      [] phase = UhkModulePhase_ProcessModuleFeatures ->
            LET r == ModuleFeaturesProcessed(count, message)
            IN <<kStatus_Uhk_NoTransfer, r[1], target, r[2], keys, <<>>, {}>>
      [] phase = UhkModulePhase_RequestKeyStates ->
            <<busStatus, UhkModulePhase_ReceiveKeystates, target, count, keys,
              <<"tx", SlaveCommand_RequestKeyStates>>, {}>>
      [] phase = UhkModulePhase_ReceiveKeystates ->
            <<busStatus, UhkModulePhase_ProcessKeystates, target, count, keys,
              <<"rx">>, {}>>
      [] phase = UhkModulePhase_ProcessKeystates ->
            LET r == KeystatesProcessed(id, count, message, keys)
            IN <<kStatus_Uhk_NoTransfer, UhkModulePhase_SetTestLed, target, count,
                 r[1], <<>>, r[2]>>
      [] phase = UhkModulePhase_SetTestLed ->
            LET r == TestLedSet(source, target, busStatus)
            IN <<r[1], UhkModulePhase_SetLedPwmBrightness, r[2], count, keys, r[3], {}>>
      [] phase = UhkModulePhase_SetLedPwmBrightness ->
            LET r == LedPwmBrightnessSet(source, target, busStatus)
            IN <<r[1], UhkModulePhase_RequestKeyStates, r[2], count, keys, r[3], {}>>

\* the state an UhkModuleSlaveDriver_Update that returns r leaves; when it
\* started a read, the bus layer leaves `message` in rxMessage before the next call
ModuleUpdated(r, message) ==
    /\ uhkModulePhase' = r[2]
    /\ uhkModuleTargetVars' = r[3]
    /\ keyCount' = r[4]
    /\ CurrentKeyStates' = r[5]
    /\ moduleOp' = <<r[1], r[6], r[7]>>
    /\ rxMessage' = IF r[6] = <<"rx">> /\ r[1] = kStatus_Success THEN message ELSE rxMessage
    /\ lastOp' = "UhkModuleSlaveDriver_Update"
    /\ UNCHANGED <<uhkModuleDriverId, uhkModuleSourceVars>>

ModuleUpdate ==
    /\ uhkModuleDriverId # NoDriver
    /\ \E busStatus \in BusStatuses :
       \E message \in IF uhkModulePhase \in {UhkModulePhase_ReceiveModuleFeatures,
                                             UhkModulePhase_ReceiveKeystates}
                       THEN Messages ELSE {rxMessage} :
          ModuleUpdated(UhkModuleSlaveDriver_Update(uhkModuleDriverId, uhkModulePhase,
                            uhkModuleSourceVars, uhkModuleTargetVars, keyCount,
                            rxMessage, CurrentKeyStates, busStatus),
                        message)
    /\ UNCHANGED <<session, rx, call, status, out, slaveVars, ledVars>>

\* UhkModuleSlaveDriver_Init
ModuleInit ==
    /\ \E id \in 0..(UHK_MODULE_MAX_COUNT - 1) :
        /\ uhkModuleDriverId \in {NoDriver, id}
        /\ uhkModuleDriverId' = id
    /\ uhkModuleSourceVars' = <<TRUE, MAX_PWM_BRIGHTNESS>>
    /\ uhkModuleTargetVars' = <<FALSE, 0>>
    /\ uhkModulePhase' = UhkModulePhase_RequestModuleFeatures
    /\ moduleOp' = <<NoStatus, <<>>, {}>>
    /\ lastOp' = "UhkModuleSlaveDriver_Init"
    /\ UNCHANGED <<keyCount, rxMessage, CurrentKeyStates>>
    /\ UNCHANGED <<session, rx, call, status, out, slaveVars, ledVars>>

\* a producer writes UhkModuleVars[uhkModuleDriverId]
ModuleVarsWritten ==
    /\ uhkModuleDriverId # NoDriver
    /\ \E source \in ModuleVars :
        /\ source # uhkModuleSourceVars
        /\ uhkModuleSourceVars' = source
    /\ moduleOp' = <<NoStatus, <<>>, {}>>
    /\ lastOp' = "UhkModuleVars"
    /\ UNCHANGED <<uhkModuleDriverId, uhkModulePhase, uhkModuleTargetVars, keyCount,
                   rxMessage, CurrentKeyStates>>
    /\ UNCHANGED <<session, rx, call, status, out, slaveVars, ledVars>>

ModuleNext == ModuleInit \/ ModuleUpdate \/ ModuleVarsWritten

ModuleSpec == Init /\ [][ModuleNext]_vars

----------------------------------------------------------------------------
(* Properties: vocabulary *)

\* steps of the state machine
CallEntered(op) == call = NoCall /\ FrameOp(call') = op
CallReturns(op) == FrameOp(call) = op /\ call' = NoCall
AbortStep == call = NoCall /\ call' = NoCall /\ isAckNeeded /\ lastOp' = "abort"
FinalizeStep == call = NoCall /\ call' = NoCall /\ lastOp' = "finalize"
PingResponseStep == call = NoCall /\ call' = NoCall /\ lastOp' = "ping_response"

\* calls that pass the argument check
ValidRead(frame) == FramePacket(frame) /\ FrameLength(frame)
ValidWrite(frame) ==
    FramePacket(frame) # <<>> /\ FrameLength(frame) <= kOutgoingPacketBufferSize

\* an Ack or AckAbort is pending
AckPending == isAckNeeded \/ isAckAbortNeeded
\* the link write that sends the pending Ack or AckAbort does not fail
DeferredAckGoesOut(frame) == ~(AckPending /\ FrameFailAt(frame) = 1)

\* entries of out
AckSent == LinkWrite(SyncPacket(kFramingPacketType.Ack))
AckAbortSent == LinkWrite(SyncPacket(kFramingPacketType.AckAbort))
NakSent == LinkWrite(SyncPacket(kFramingPacketType.Nak))
PingResponseSent ==
    <<LinkWrite(<<kFramingPacketStartByte, kFramingPacketType.PingResponse>>),
      LinkWrite(k_PingResponse)>>
IsDataWrite(e) ==
    /\ Len(e) = 2
    /\ e[1] = "write"
    /\ Len(e[2]) >= 6
    /\ e[2][2] \in {kFramingPacketType.Command, kFramingPacketType.Data}
DataWrites(o) == SelectSeq(o, IsDataWrite)
Count(o, e) == Cardinality({i \in 1..Len(o) : o[i] = e})
First(o, e) == Len(o) >= 1 /\ o[1] = e
EndsWith(o, tail) ==
    Len(o) >= Len(tail) /\ SubSeq(o, Len(o) - Len(tail) + 1, Len(o)) = tail
HasPrefix(o, head) == Len(o) >= Len(head) /\ SubSeq(o, 1, Len(head)) = head

\* the data packet the write `frame` puts on the wire
DataPacketOf(frame) ==
    LinkWrite(BuildFramingPacket(FramePacket(frame), FrameLength(frame),
                                 FramePacketType(frame)))

\* k copies of the bytes s, one after the other
RECURSIVE Repeat(_, _)
Repeat(s, k) == IF k = 0 THEN <<>> ELSE s \o Repeat(s, k - 1)

\* the packets of the peer, with a right and with a wrong crc16
PeerCommand == PeerDataPacket(kFramingPacketType.Command, PeerPayload, TRUE)
PeerCommandBadCrc == PeerDataPacket(kFramingPacketType.Command, PeerPayload, FALSE)
PeerData == PeerDataPacket(kFramingPacketType.Data, PeerPayload, TRUE)
PeerDataBadCrc == PeerDataPacket(kFramingPacketType.Data, PeerPayload, FALSE)

\* the packet of the type the read `frame` asks for, as the peer sends it
PeerPacketFor(frame, crcOk) ==
    IF ExpectedPacketType(FramePacketType(frame)) = kFramingPacketType.Command
    THEN (IF crcOk THEN PeerCommand ELSE PeerCommandBadCrc)
    ELSE (IF crcOk THEN PeerData ELSE PeerDataBadCrc)

\* bytes of the link the step has read
Consumed == Len(rx) - Len(rx')

----------------------------------------------------------------------------
(* The loop from writer to reader: a packet built by serial_packet_write   *)
(* and acknowledged by the peer comes back on the link, as it was sent or  *)
(* with one payload byte changed, to a serial_packet_read.                 *)

\* byte values of the payloads written
LoopBytes == {0, 255}

\* the payloads written: every sequence of LoopBytes of 1..MaxLoopPayload bytes
LoopPayloads ==
    UNION {[1..n -> LoopBytes] : n \in 1..MaxLoopPayload}

\* the framing packet with its i-th payload byte replaced by b
PayloadByteChanged(packet, i, b) == [packet EXCEPT ![6 + i] = b]

LoopWrite ==
    /\ call = NoCall
    /\ lastOp = "init"
    /\ \E packet \in LoopPayloads, packetType \in {"Command", "Data"} :
        Entered(Frame("write", packet, Len(packet), packetType, 0, 0))

\* the peer acknowledges the packet
LoopAck ==
    /\ call # NoCall
    /\ FrameOp(call) = "write"
    /\ FrameDelivered(call) = 0
    /\ Run(call, rx).c.starved
    /\ rx' = rx \o SyncPacket(kFramingPacketType.Ack)
    /\ call' = [call EXCEPT ![6] = @ + 1]
    /\ UNCHANGED <<session, lastOp, status, out, slaveVars, ledVars, moduleVars>>

LoopRead ==
    /\ call = NoCall
    /\ lastOp = "write"
    /\ status = kStatus_Success
    /\ \E packetType \in {"Command", "Data"} :
        Entered(Frame("read", TRUE, TRUE, packetType, 0, 0))

\* the packet written comes back: as it is (i = 0), or with its i-th payload
\* byte changed to another value b
LoopEcho ==
    /\ call # NoCall
    /\ FrameOp(call) = "read"
    /\ FrameDelivered(call) = 0
    /\ Run(call, rx).c.starved
    /\ \E i \in 0..(Len(framingPacket) - 6) :
        \E b \in IF i = 0 THEN {0} ELSE (0..255) \ {framingPacket[6 + i]} :
            rx' = rx \o (IF i = 0 THEN framingPacket
                                  ELSE PayloadByteChanged(framingPacket, i, b))
    /\ call' = [call EXCEPT ![6] = @ + 1]
    /\ UNCHANGED <<session, lastOp, status, out, slaveVars, ledVars, moduleVars>>

LoopNext == LoopWrite \/ LoopAck \/ LoopRead \/ LoopEcho \/ Return

LoopSpec == Init /\ [][LoopNext]_vars

----------------------------------------------------------------------------
(* Properties *)

\* C1: after serial_packet_read has returned kStatus_Success, the very next
\* serial_packet_write (one that passes its argument check) finds the Ack
\* still pending and hands the Ack sync packet to the link first, before any
\* byte of its data packet, and hands over exactly one Ack in the whole call.
C1_AckBeforeNextWrite ==
    [][ /\ ( /\ CallEntered("write") /\ ValidWrite(call')
             /\ lastOp = "read" /\ status = kStatus_Success )
           => /\ isAckNeeded
              /\ First(out', AckSent)
              /\ Count(out', AckSent) = 1
              /\ FrameFailAt(call') # 1 =>
                    /\ Len(out') >= 2
                    /\ out'[Len(out')] = DataPacketOf(call')
                    /\ DataWrites(out') = <<DataPacketOf(call')>>
        /\ (CallReturns("write") /\ ValidWrite(call) /\ isAckNeeded)
           => /\ HasPrefix(out', out)
              /\ First(out', AckSent)
              /\ Count(out', AckSent) = 1
      ]_vars

\* C1, its case: a write has sent the Ack, then its data packet, and was acked
C1_Witness ==
    /\ lastOp = "write" /\ call = NoCall /\ status = kStatus_Success
    /\ First(out, AckSent)
    /\ Len(out) >= 2 /\ out[Len(out)] = LinkWrite(framingPacket)

\* C2: when the peer answers the first N-1 transmissions of a data packet with
\* Nak and the N-th with Ack, serial_packet_write returns kStatus_Success after
\* exactly N transmissions, each the same bytes as the first.
C2_NakRetransmits ==
    [][ \A n \in 1..MaxPeerPackets :
            ( /\ CallReturns("write") /\ ValidWrite(call) /\ FrameFailAt(call) = 0
              /\ rx = Repeat(SyncPacket(kFramingPacketType.Nak), n - 1)
                          \o SyncPacket(kFramingPacketType.Ack) )
            => /\ status' = kStatus_Success
               /\ DataWrites(out') = [i \in 1..n |-> DataPacketOf(call)]
               /\ rx' = <<>>
      ]_vars

\* C2, its case: a write was acked after a Nak, with two transmissions
C2_Witness ==
    /\ lastOp = "write" /\ call = NoCall /\ status = kStatus_Success
    /\ Len(DataWrites(out)) = 2

\* C3: when the peer answers a data packet with AckAbort, serial_packet_write
\* returns kStatus_AbortDataPhase, a status that is none of success, timeout
\* and invalid argument, and the packet is not sent again after the AckAbort.
C3_AckAbortEndsWrite ==
    [][ \A k \in 0..(MaxPeerPackets - 1) :
            ( /\ CallReturns("write") /\ ValidWrite(call) /\ FrameFailAt(call) = 0
              /\ rx = Repeat(SyncPacket(kFramingPacketType.Nak), k)
                          \o SyncPacket(kFramingPacketType.AckAbort) )
            => /\ status' = kStatus_AbortDataPhase
               /\ status' \notin {kStatus_Success, kStatus_Timeout, kStatus_InvalidArgument}
               /\ Len(DataWrites(out')) = k + 1
               /\ rx' = <<>>
      ]_vars

\* C3, its case: a write that sent its data packet was answered AckAbort
C3_Witness ==
    /\ lastOp = "write" /\ call = NoCall /\ status = kStatus_AbortDataPhase
    /\ Len(DataWrites(out)) >= 1

\* C4: when the header that answers a data packet carries a type other than Ack,
\* Nak and AckAbort, serial_packet_write returns kStatus_InvalidArgument; it
\* reads no further, does not send the packet again and sends no Nak.
C4_UnexpectedSyncType ==
    [][ \A k \in 0..(MaxPeerPackets - 1) :
            ( /\ CallReturns("write") /\ ValidWrite(call) /\ FrameFailAt(call) = 0
              /\ Len(rx) >= 2 * k + 2
              /\ SubSeq(rx, 1, 2 * k) = Repeat(SyncPacket(kFramingPacketType.Nak), k)
              /\ rx[2 * k + 1] = kFramingPacketStartByte
              /\ rx[2 * k + 2] \in (0..255) \ {kFramingPacketType.Ack,
                                               kFramingPacketType.Nak,
                                               kFramingPacketType.AckAbort} )
            => /\ status' = kStatus_InvalidArgument
               /\ Consumed = 2 * k + 2
               /\ Len(DataWrites(out')) = k + 1
               /\ Count(out', NakSent) = 0
      ]_vars

\* C4, its case: a write that sent its data packet returned invalid argument
C4_Witness ==
    /\ lastOp = "write" /\ call = NoCall /\ status = kStatus_InvalidArgument
    /\ Len(DataWrites(out)) >= 1

\* C5 as the specification states it: when a Ping arrives while
\* serial_packet_read scans for a data packet and a valid packet follows it on
\* the link, the same read answers the Ping and returns that packet's payload
\* with kStatus_Success.
C5_PingDoesNotEndRead ==
    [][ ( /\ CallReturns("read") /\ ValidRead(call) /\ DeferredAckGoesOut(call)
          /\ rx = SyncPacket(kFramingPacketType.Ping) \o PeerPacketFor(call, TRUE) )
        => /\ status' = kStatus_Success
           /\ EndsWith(out', PingResponseSent)
           /\ data' = PeerPayload
           /\ packetLength' = Len(PeerPayload)
      ]_vars

\* C5: when a Ping arrives while serial_packet_read scans for a data packet,
\* the read sends the PingResponse (header, then the response record) and
\* returns kStatus_Ping with a reported length of 0 and no Ack pending: the
\* Ping ends the read, and what follows the Ping on the link, a valid packet
\* included, stays there for a later read.
C5_PingEndsRead ==
    [][ ( /\ CallReturns("read") /\ ValidRead(call) /\ DeferredAckGoesOut(call)
          /\ HasPrefix(rx, SyncPacket(kFramingPacketType.Ping)) )
        => /\ status' = kStatus_Ping
           /\ EndsWith(out', PingResponseSent)
           /\ Count(out', NakSent) = 0
           /\ packetLength' = 0
           /\ ~isAckNeeded'
           /\ rx' = SubSeq(rx, 3, Len(rx))
      ]_vars

\* C5, its case: a read has returned kStatus_Ping after it answered the Ping,
\* and the valid Command packet sent behind the Ping is still on the link
C5_Witness ==
    /\ lastOp = "read" /\ call = NoCall /\ status = kStatus_Ping
    /\ EndsWith(out, PingResponseSent)
    /\ rx = PeerCommand

\* C6: serial_send_ping_response hands the PingResponse to the link only when
\* neither an Ack nor an AckAbort is pending: in every state where isAckNeeded
\* or isAckAbortNeeded is set, the call hands nothing to the link.
C6_PingResponseOnlyWhenIdle ==
    [][ (PingResponseStep /\ AckPending) => out' = <<>> ]_vars

\* C7 as the specification states it: every packet whose crc16 does not match
\* is answered with exactly one Nak and the read goes on to the next packet;
\* the read returns kStatus_Success only for a packet whose crc16 matches and
\* sets isAckNeeded exactly then; on any error return isAckNeeded is not set
\* by the call and the reported length (the caller's *packetLength, when the
\* caller passes one) is 0.
C7_NakPerBadPacket ==
    [][ CallReturns("read")
        => /\ (ValidRead(call) /\ DeferredAckGoesOut(call))
              => \A k \in 0..MaxPeerPackets :
                   /\ rx = Repeat(PeerPacketFor(call, FALSE), k) \o PeerPacketFor(call, TRUE)
                      => /\ status' = kStatus_Success
                         /\ Count(out', NakSent) = k
                         /\ data' = PeerPayload
                         /\ packetLength' = Len(PeerPayload)
                   /\ (k >= 1 /\ rx = Repeat(PeerPacketFor(call, FALSE), k))
                      => /\ status' = kStatus_Timeout
                         /\ Count(out', NakSent) = k
           /\ status' = kStatus_Success
              => /\ isAckNeeded'
                 /\ packetLength' = Len(data')
                 /\ EndsWith(SubSeq(rx, 1, Consumed),
                        FramingPacketBytes(kFramingPacketStartByte,
                            ExpectedPacketType(FramePacketType(call)), Len(data'),
                            calculate_framing_crc16(kFramingPacketStartByte,
                                ExpectedPacketType(FramePacketType(call)),
                                Len(data'), data'),
                            data'))
           /\ status' # kStatus_Success
              => /\ isAckNeeded' => (isAckNeeded /\ ~ValidRead(call))
                 /\ FrameLength(call) => packetLength' = 0
      ]_vars

\* C7: as above, except that the reported length is 0 on the error returns of
\* a call that passed the argument check; a call rejected with
\* kStatus_InvalidArgument for a null packet pointer returns before the length
\* is written and leaves the caller's *packetLength, like the rest of the
\* state, as it was.
C7_NakPerBadPacketLengthKept ==
    [][ CallReturns("read")
        => /\ (ValidRead(call) /\ DeferredAckGoesOut(call))
              => \A k \in 0..MaxPeerPackets :
                   /\ rx = Repeat(PeerPacketFor(call, FALSE), k) \o PeerPacketFor(call, TRUE)
                      => /\ status' = kStatus_Success
                         /\ Count(out', NakSent) = k
                         /\ data' = PeerPayload
                         /\ packetLength' = Len(PeerPayload)
                   /\ (k >= 1 /\ rx = Repeat(PeerPacketFor(call, FALSE), k))
                      => /\ status' = kStatus_Timeout
                         /\ Count(out', NakSent) = k
           /\ status' = kStatus_Success
              => /\ isAckNeeded'
                 /\ packetLength' = Len(data')
                 /\ EndsWith(SubSeq(rx, 1, Consumed),
                        FramingPacketBytes(kFramingPacketStartByte,
                            ExpectedPacketType(FramePacketType(call)), Len(data'),
                            calculate_framing_crc16(kFramingPacketStartByte,
                                ExpectedPacketType(FramePacketType(call)),
                                Len(data'), data'),
                            data'))
           /\ status' # kStatus_Success
              => /\ isAckNeeded' => (isAckNeeded /\ ~ValidRead(call))
                 /\ ValidRead(call) => packetLength' = 0
                 /\ ~ValidRead(call)
                    => /\ status' = kStatus_InvalidArgument
                       /\ out' = <<>>
                       /\ UNCHANGED <<session, rx>>
      ]_vars

\* C7, its case: a read has answered a packet with a wrong crc16 with a Nak
\* and has then returned the packet sent after it
C7_Witness ==
    /\ lastOp = "read" /\ call = NoCall /\ status = kStatus_Success
    /\ Count(out, NakSent) = 1
    /\ isAckNeeded /\ data = PeerPayload /\ packetLength = Len(PeerPayload)

\* C8: serial_packet_abort, called while an Ack is pending, turns the pending
\* Ack into a pending AckAbort and sends nothing; the next serial_packet_write,
\* serial_packet_read (past their argument check) or serial_packet_finalize
\* hands the AckAbort to the link exactly once, before it sends or reads
\* anything else, and sends no Ack; afterwards no AckAbort is pending, and an
\* Ack is pending only if that call is a read that returned a packet.  No call
\* sends both an Ack and an AckAbort, and each is sent only when it is pending.
C8_AbortSendsAckAbortOnce ==
    [][ /\ AbortStep
           => /\ isAckAbortNeeded' /\ ~isAckNeeded'
              /\ out' = <<>> /\ rx' = rx
        /\ (lastOp = "abort" /\ (\/ CallEntered("write") /\ ValidWrite(call')
                                 \/ CallEntered("read") /\ ValidRead(call')))
           => /\ isAckAbortNeeded /\ ~isAckNeeded
              /\ First(out', AckAbortSent)
              /\ Count(out', AckAbortSent) = 1
              /\ Count(out', AckSent) = 0
        /\ (lastOp = "abort" /\ FinalizeStep)
           => /\ out' = <<AckAbortSent>>
              /\ ~isAckAbortNeeded' /\ ~isAckNeeded'
        /\ (isAckAbortNeeded /\ (\/ CallReturns("write") /\ ValidWrite(call)
                                 \/ CallReturns("read") /\ ValidRead(call)))
           => /\ First(out', AckAbortSent)
              /\ Count(out', AckAbortSent) = 1
              /\ Count(out', AckSent) = 0
              /\ ~isAckAbortNeeded'
              /\ isAckNeeded' <=> (FrameOp(call) = "read" /\ status' = kStatus_Success)
              /\ FrameFailAt(call) = 1
                 => /\ status' = kStatus_Fail
                    /\ out' = <<AckAbortSent>>
                    /\ rx' = rx
        /\ Count(out', AckSent) + Count(out', AckAbortSent) <= 1
        /\ Count(out', AckSent) = 1 => isAckNeeded
        /\ Count(out', AckAbortSent) = 1 => (isAckAbortNeeded /\ ~isAckNeeded)
        /\ ~(isAckNeeded' /\ isAckAbortNeeded')
      ]_vars

\* C8, its case: after an abort, a write has sent the AckAbort first, then its
\* data packet, and was acked
C8_Witness ==
    /\ lastOp = "write" /\ call = NoCall /\ status = kStatus_Success
    /\ First(out, AckAbortSent)
    /\ Count(out, AckAbortSent) = 1
    /\ Len(DataWrites(out)) >= 1
    /\ ~isAckAbortNeeded /\ ~isAckNeeded

\* a sync packet of the engine is among the entries of o
SyncSent(o) == Count(o, AckSent) + Count(o, AckAbortSent) + Count(o, NakSent) > 0

\* no host_delay among the entries of o / one, right before the first data packet
NoDelay(o) == Count(o, HostDelay) = 0
DelayBeforeData(o) ==
    /\ Count(o, HostDelay) = 1
    /\ \E i \in 1..(Len(o) - 1) :
        /\ o[i] = HostDelay
        /\ IsDataWrite(o[i + 1])
        /\ \A j \in 1..(i - 1) : ~IsDataWrite(o[j])

\* the write before this one put its data packet on the wire
PreviousCallWrote == lastOp = "write" /\ call = NoCall /\ DataWrites(out) # <<>>
\* the read before this one sent nothing and left no Ack pending
PreviousCallReadSilently ==
    lastOp = "read" /\ call = NoCall /\ out = <<>> /\ ~AckPending

\* C9 as the specification states it: serial_packet_write delays before its
\* data packet whenever the previous link operation was an outbound write:
\* when the deferred Ack or AckAbort was just sent in this call, and when the
\* previous call was itself a write (two writes in succession with nothing
\* pending: the second delays); it does not delay after a read that sent
\* nothing and left no Ack pending.
C9_DelayAfterAnyWrite ==
    [][ (CallEntered("write") /\ ValidWrite(call') /\ DeferredAckGoesOut(call'))
        => /\ AckPending => DelayBeforeData(out')
           /\ PreviousCallWrote => DelayBeforeData(out')
           /\ PreviousCallReadSilently => NoDelay(out')
      ]_vars

\* C9: serial_packet_write delays before its data packet exactly when it has
\* just sent the deferred Ack or AckAbort in this call or isBackToBackWrite is
\* still set from a sync packet (Ack, AckAbort, Nak) sent earlier.  Only the
\* sending of a sync packet sets the flag; the delay clears it, and so does
\* every read that passes its argument check.  A data packet does not set it:
\* of two writes in succession with nothing pending the second does not delay.
\* Nor does a write after a read, past its argument check, that sent nothing
\* and left no Ack pending.
C9_DelayAfterSyncPacket ==
    [][ /\ (CallEntered("write") /\ ValidWrite(call') /\ DeferredAckGoesOut(call'))
           => /\ (AckPending \/ isBackToBackWrite) <=> DelayBeforeData(out')
              /\ ~(AckPending \/ isBackToBackWrite) <=> NoDelay(out')
              /\ PreviousCallWrote => NoDelay(out')
              /\ (PreviousCallReadSilently /\ status # kStatus_InvalidArgument)
                 => NoDelay(out')
        /\ (CallReturns("write") /\ ValidWrite(call) /\ DeferredAckGoesOut(call))
           => ~isBackToBackWrite'
        /\ (CallReturns("read") /\ ValidRead(call))
           => (isBackToBackWrite' <=> SyncSent(out'))
        /\ (CallReturns("read") /\ ~ValidRead(call)) => UNCHANGED isBackToBackWrite
        /\ (AbortStep \/ PingResponseStep) => UNCHANGED isBackToBackWrite
        /\ FinalizeStep => (isBackToBackWrite' <=> (isBackToBackWrite \/ AckPending))
      ]_vars

\* C9, its case: a write with nothing pending has delayed before its data
\* packet, a sync packet being the last thing sent before the call
C9_Witness ==
    /\ lastOp = "write" /\ call = NoCall /\ status = kStatus_Success
    /\ Len(out) = 2 /\ out[1] = HostDelay /\ IsDataWrite(out[2])

\* a byte that is neither the start byte nor a fault of the link
NonSentinel(b) == b \in 0..255 /\ b # kFramingPacketStartByte

\* a call that reaches its scan for the start byte returns
ScanReturns ==
    \/ CallReturns("read") /\ ValidRead(call) /\ DeferredAckGoesOut(call)
    \/ CallReturns("write") /\ ValidWrite(call) /\ FrameFailAt(call) = 0

\* C10: on a link that delivers only bytes other than the start byte, a scan
\* for the start byte makes at most kHostMaxStartByteReadCount + 2 single-byte
\* reads and the call returns kStatus_Timeout; an error of a byte read ends the
\* scan at once with that error.
C10_StartByteScanBounded ==
    [][ ScanReturns
        => /\ (\A i \in 1..Len(rx) : NonSentinel(rx[i]))
              => /\ status' = kStatus_Timeout
                 /\ Consumed <= kHostMaxStartByteReadCount + 2
                 /\ Consumed = MIN(Len(rx), kHostMaxStartByteReadCount + 2)
           /\ \A n \in 0..(kHostMaxStartByteReadCount + 1) :
                ( /\ Len(rx) > n
                  /\ \A i \in 1..n : NonSentinel(rx[i])
                  /\ rx[n + 1] = LinkError )
                => /\ status' = kStatus_Fail
                   /\ Consumed = n + 1
      ]_vars

\* C10, its case: a read has given up with kStatus_Timeout while bytes were
\* left on the link, its scan stopped by the count of reads
C10_Witness ==
    /\ lastOp = "read" /\ call = NoCall /\ status = kStatus_Timeout
    /\ rx # <<>>
    /\ \A i \in 1..Len(rx) : NonSentinel(rx[i])

\* the fields of a framing packet laid out in memory
PacketLengthField(p) == Halfword(SubSeq(p, 3, 4))
PacketCrc16Field(p) == Halfword(SubSeq(p, 5, 6))
PacketPayload(p) == SubSeq(p, 7, Len(p))

\* the link holds the packet written last, header intact, for the read in progress
PacketCameBack ==
    /\ CallReturns("read")
    /\ lastOp = "read"
    /\ Len(rx) = Len(framingPacket)
    /\ SubSeq(rx, 1, 6) = SubSeq(framingPacket, 1, 6)
    /\ framingPacket[2] = ExpectedPacketType(FramePacketType(call))

\* C11: the crc16 field of every packet serial_packet_write builds is the CRC
\* over its startByte, packetType, length and payload; when the packet comes
\* back unchanged, serial_packet_read recomputes the same value, sends no Nak
\* and returns the payload with kStatus_Success; when it comes back with one
\* payload byte changed, the recomputed CRC differs: the read answers with
\* exactly one Nak and does not return the packet.
C11_CrcRoundTrip ==
    [][ /\ (CallReturns("write") /\ ValidWrite(call) /\ status' = kStatus_Success)
           => /\ framingPacket' = BuildFramingPacket(FramePacket(call), FrameLength(call),
                                                     FramePacketType(call))
              /\ PacketCrc16Field(framingPacket')
                    = calculate_framing_crc16(framingPacket'[1], framingPacket'[2],
                          PacketLengthField(framingPacket'), PacketPayload(framingPacket'))
        /\ PacketCameBack
           => /\ rx = framingPacket
                 => /\ status' = kStatus_Success
                    /\ Count(out', NakSent) = 0
                    /\ data' = PacketPayload(framingPacket)
                    /\ packetLength' = PacketLengthField(framingPacket)
                    /\ rx' = <<>>
              /\ rx # framingPacket
                 => /\ calculate_framing_crc16(rx[1], rx[2], PacketLengthField(rx),
                                               PacketPayload(rx))
                          # PacketCrc16Field(rx)
                    /\ Count(out', NakSent) = 1
                    /\ status' # kStatus_Success
                    /\ ~isAckNeeded'
      ]_vars

\* C11, its case: a read has answered the packet written before it, which
\* came back with a payload byte changed, with a Nak
C11_Witness ==
    /\ lastOp = "read" /\ call = NoCall /\ status = kStatus_Timeout
    /\ Count(out, NakSent) = 1
    /\ Len(framingPacket) = 6 + MaxLoopPayload
    /\ framingPacket[1] = kFramingPacketStartByte

----------------------------------------------------------------------------
(* Properties of the LED driver *)

\* the driver pushes its table in phase Initialized and its last
\* LedSlaveDriver_Update issued a brightness transfer
RunWritten ==
    /\ ledDriverPhase = LedDriverPhase_Initialized
    /\ ledCalls > 0
    /\ ledWrite # <<>>

\* C12, as stated: with the source table written no more, the target table
\* equals the source table after ceil(LED_DRIVER_LED_COUNT /
\* PMW_REGISTER_UPDATE_CHUNK_SIZE) calls of LedSlaveDriver_Update in phase
\* Initialized.
C12_ConvergedInChunkCountCalls ==
    (ledDriverPhase = LedDriverPhase_Initialized /\ ledCalls >= LedChunkCount)
        => targetLedValues = sourceLedValues

\* C12: from any state in phase Initialized (any cursor, any source and target
\* table), with the source table written no more, the target table equals the
\* source table after at most ceil(LED_DRIVER_LED_COUNT /
\* PMW_REGISTER_UPDATE_CHUNK_SIZE) + 1 calls of LedSlaveDriver_Update.
C12_ConvergedInChunkCountPlusOneCalls ==
    (ledDriverPhase = LedDriverPhase_Initialized /\ ledCalls >= LedChunkCount + 1)
        => targetLedValues = sourceLedValues

\* C12, its case: the call that made the tables equal was the
\* (ceil(LED_DRIVER_LED_COUNT / PMW_REGISTER_UPDATE_CHUNK_SIZE) + 1)-th
C12_Witness ==
    /\ RunWritten
    /\ ledCalls = LedChunkCount + 1
    /\ targetLedValues = sourceLedValues

\* the register byte of the last brightness transfer, as an index of the table
WrittenStartLedIndex == ledWrite[1] - FRAME_REGISTER_PWM_FIRST

\* the brightness bytes of the last brightness transfer
WrittenLedValues == SubSeq(ledWrite, 2, Len(ledWrite))

\* C13: every brightness transfer of LedSlaveDriver_Update, in phase
\* InitLedValues or Initialized, carries at least one and at most
\* PMW_REGISTER_UPDATE_CHUNK_SIZE brightness bytes after its register byte, and
\* the run it addresses lies inside the table: start index + number of
\* brightness bytes <= LED_DRIVER_LED_COUNT.
C13_TransferWithinChunkAndTable ==
    ledWrite # <<>>
        => /\ Len(WrittenLedValues) \in 1..PMW_REGISTER_UPDATE_CHUNK_SIZE
           /\ Len(ledWrite) <= PMW_REGISTER_UPDATE_CHUNK_SIZE + 1
           /\ WrittenStartLedIndex >= 0
           /\ WrittenStartLedIndex + Len(WrittenLedValues) <= LED_DRIVER_LED_COUNT

\* C13, its case: an update in phase Initialized has transmitted a full chunk
\* that ends with the last entry of the table
C13_Witness ==
    /\ RunWritten
    /\ Len(WrittenLedValues) = PMW_REGISTER_UPDATE_CHUNK_SIZE
    /\ WrittenStartLedIndex + Len(WrittenLedValues) = LED_DRIVER_LED_COUNT

\* an LedSlaveDriver_Update step of a driver in phase Initialized
InitializedUpdateStep ==
    /\ ledDriverPhase = LedDriverPhase_Initialized
    /\ lastOp' = "LedSlaveDriver_Update"

\* the indices whose source brightness differs from the target brightness
DifferingLedIndices ==
    {i \in 0..(LED_DRIVER_LED_COUNT - 1) : sourceLedValues[i + 1] # targetLedValues[i + 1]}

\* how far index i is from index `from`, going up and round the table end
CircularDistance(from, i) == (i + LED_DRIVER_LED_COUNT - from) % LED_DRIVER_LED_COUNT

\* the first differing index, scanning circularly from
\* min(cursor, LED_DRIVER_LED_COUNT - PMW_REGISTER_UPDATE_CHUNK_SIZE)
RunStart ==
    LET from == MIN(ledIndex, LED_DRIVER_LED_COUNT - PMW_REGISTER_UPDATE_CHUNK_SIZE)
    IN CHOOSE i \in DifferingLedIndices :
           \A j \in DifferingLedIndices : CircularDistance(from, i) <= CircularDistance(from, j)

\* the last differing index within the window of
\* min(PMW_REGISTER_UPDATE_CHUNK_SIZE, LED_DRIVER_LED_COUNT - start) positions from the start
RunEnd ==
    LET window == MIN(PMW_REGISTER_UPDATE_CHUNK_SIZE, LED_DRIVER_LED_COUNT - RunStart)
    IN CHOOSE i \in DifferingLedIndices :
           /\ i \in RunStart..(RunStart + window - 1)
           /\ \A j \in DifferingLedIndices : j \in RunStart..(RunStart + window - 1) => j <= i

\* C14: an update in phase Initialized with differing entries transmits the run
\* from the first differing index, scanning circularly from min(cursor,
\* LED_DRIVER_LED_COUNT - PMW_REGISTER_UPDATE_CHUNK_SIZE), to the last differing
\* index within the window of min(PMW_REGISTER_UPDATE_CHUNK_SIZE,
\* LED_DRIVER_LED_COUNT - start) positions from it, addressed at register
\* FRAME_REGISTER_PWM_FIRST + start; the first and the last transmitted position
\* differ before the call.  When exactly one index i differs, exactly one
\* brightness byte goes out, addressed at FRAME_REGISTER_PWM_FIRST + i,
\* whatever the cursor is.
C14_RunSelection ==
    [][ (InitializedUpdateStep /\ DifferingLedIndices # {})
        => /\ ledWrite' = <<FRAME_REGISTER_PWM_FIRST + RunStart>>
                              \o SubSeq(sourceLedValues, RunStart + 1, RunEnd + 1)
           /\ RunStart \in DifferingLedIndices /\ RunEnd \in DifferingLedIndices
           /\ \A i \in 0..(LED_DRIVER_LED_COUNT - 1) :
                 DifferingLedIndices = {i}
                     => ledWrite' = <<FRAME_REGISTER_PWM_FIRST + i, sourceLedValues[i + 1]>>
      ]_vars

\* C14, its case: the last entry of the table was the only one that differed
\* and the cursor was at 0: one brightness byte has gone out, addressed at the
\* last entry
C14_Witness ==
    /\ RunWritten
    /\ ledCalls = 1
    /\ ledIndex = 1
    /\ ledWrite = <<FRAME_REGISTER_PWM_FIRST + LED_DRIVER_LED_COUNT - 1,
                    sourceLedValues[LED_DRIVER_LED_COUNT]>>
    /\ targetLedValues = sourceLedValues

\* C20: after an update in phase Initialized that transmits the run
\* [start, end], the cursor ledIndex is past the run: end + 1 if
\* end + 1 < LED_DRIVER_LED_COUNT and 0 otherwise, for every cursor value and
\* every pattern of differing positions before the call.
C20_CursorPastRun ==
    [][ (InitializedUpdateStep /\ DifferingLedIndices # {})
        => ledIndex' = IF RunEnd + 1 < LED_DRIVER_LED_COUNT THEN RunEnd + 1 ELSE 0
      ]_vars

\* the steps of the LED driver
LedInitStep == lastOp' = "LedSlaveDriver_Init"
LedUpdateStep == lastOp' = "LedSlaveDriver_Update"

\* the phase that follows a phase in the order of the phases
LedPhaseAfter(phase) ==
    CASE phase = LedDriverPhase_SetFunctionFrame -> LedDriverPhase_SetShutdownModeNormal
      [] phase = LedDriverPhase_SetShutdownModeNormal -> LedDriverPhase_SetFrame1
      [] phase = LedDriverPhase_SetFrame1 -> LedDriverPhase_InitLedControlRegisters
      [] phase = LedDriverPhase_InitLedControlRegisters -> LedDriverPhase_InitLedValues
      [] phase = LedDriverPhase_InitLedValues -> LedDriverPhase_Initialized
      [] phase = LedDriverPhase_Initialized -> LedDriverPhase_Initialized

\* the companion device of the LED driver is not connected: the left LED
\* driver's is the left keyboard half, the right LED driver has none to wait for
CompanionMissing == ledDriverId = LedDriverId_Left /\ ~keyboardHalfIsConnected

\* C18: LedSlaveDriver_Init leaves phase SetFunctionFrame and cursor 0; the
\* phase changes only by LedSlaveDriver_Init or by an update, which moves it to
\* the next phase in the order SetFunctionFrame, SetShutdownModeNormal,
\* SetFrame1, InitLedControlRegisters, InitLedValues, Initialized.  An update
\* in SetFunctionFrame holds the phase without a transfer while the companion
\* device is not connected and advances with a transfer otherwise; the next
\* three phases advance with a transfer each; an update in InitLedValues sends
\* a chunk and advances the cursor by the chunk size, and when the cursor
\* reaches the table length resets it to 0 and enters Initialized; an update
\* in Initialized stays there.
C18_LedPhaseSequence ==
    [][ /\ LedInitStep
           => ledDriverPhase' = LedDriverPhase_SetFunctionFrame /\ ledIndex' = 0
        /\ ledDriverPhase' # ledDriverPhase
           => \/ LedInitStep
              \/ LedUpdateStep /\ ledDriverPhase' = LedPhaseAfter(ledDriverPhase)
        /\ LedUpdateStep
           => /\ ledDriverPhase = LedDriverPhase_SetFunctionFrame
                 => IF CompanionMissing
                    THEN /\ ledDriverPhase' = LedDriverPhase_SetFunctionFrame
                         /\ ledWrite' = <<>>
                    ELSE /\ ledDriverPhase' = LedDriverPhase_SetShutdownModeNormal
                         /\ ledWrite' = setFunctionFrameBuffer
              /\ ledDriverPhase \in {LedDriverPhase_SetShutdownModeNormal,
                                     LedDriverPhase_SetFrame1,
                                     LedDriverPhase_InitLedControlRegisters}
                 => /\ ledDriverPhase' = LedPhaseAfter(ledDriverPhase)
                    /\ ledWrite' # <<>>
                    /\ ledIndex' = ledIndex
              /\ ledDriverPhase = LedDriverPhase_InitLedValues
                 => /\ Len(ledWrite') = PWM_REGISTER_BUFFER_LENGTH
                    /\ IF ledIndex + PMW_REGISTER_UPDATE_CHUNK_SIZE < LED_DRIVER_LED_COUNT
                       THEN /\ ledIndex' = ledIndex + PMW_REGISTER_UPDATE_CHUNK_SIZE
                            /\ ledDriverPhase' = LedDriverPhase_InitLedValues
                       ELSE /\ ledIndex' = 0
                            /\ ledDriverPhase' = LedDriverPhase_Initialized
              /\ ledDriverPhase = LedDriverPhase_Initialized
                 => ledDriverPhase' = LedDriverPhase_Initialized
      ]_vars

\* C18, its case: the left LED driver has gone through all phases: its last
\* update sent the last chunk of the table in InitLedValues, reset the cursor
\* and entered Initialized
C18_Witness ==
    /\ ledDriverId = LedDriverId_Left
    /\ lastOp = "LedSlaveDriver_Update"
    /\ ledDriverPhase = LedDriverPhase_Initialized
    /\ ledCalls = 0
    /\ ledIndex = 0
    /\ Len(ledWrite) = PWM_REGISTER_BUFFER_LENGTH
    /\ WrittenStartLedIndex = lastLedChunkStartIndex

\* the disconnect handler of module id has just been called
DisconnectStep(id) ==
    /\ lastOp' = "UhkModuleSlaveDriver_Disconnect"
    /\ uhkModuleDriverId' = id

\* the last event was the disconnect of the left keyboard half
KeyboardHalfJustDisconnected ==
    /\ lastOp = "UhkModuleSlaveDriver_Disconnect"
    /\ uhkModuleDriverId = UhkModuleDriverId_LeftKeyboardHalf

----------------------------------------------------------------------------
(* Properties of the module driver *)

\* the steps of the module driver
ModuleInitStep == lastOp' = "UhkModuleSlaveDriver_Init"
ModuleUpdateStep == lastOp' = "UhkModuleSlaveDriver_Update"
ModuleVarsWrittenStep == lastOp' = "UhkModuleVars"

\* the update call of this step: its status, its bus operation, the cells of
\* CurrentKeyStates it wrote
ReturnedStatus == moduleOp'[1]
BusOperation == moduleOp'[2]
CellsWritten == moduleOp'[3]

\* C15: an update in phase SetTestLed (resp. SetLedPwmBrightness) issues a bus
\* write iff the source isTestLedOn (resp. ledPwmBrightness) differs from the
\* target value when it is called, and otherwise returns the no-transfer
\* status; the pass leaves the target value equal to the source value, and
\* they stay equal until a producer writes the source or the driver is
\* initialised again, so that no later pass through the phase issues a
\* transfer before that.
C15_ChangeGating ==
    [][ /\ (ModuleUpdateStep /\ uhkModulePhase = UhkModulePhase_SetTestLed)
           => /\ BusOperation # <<>> <=> uhkModuleSourceVars[1] # uhkModuleTargetVars[1]
              /\ BusOperation # <<>>
                   => BusOperation = <<"tx", SlaveCommand_SetTestLed, uhkModuleSourceVars[1]>>
              /\ BusOperation = <<>> => ReturnedStatus = kStatus_Uhk_NoTransfer
              /\ uhkModuleTargetVars'[1] = uhkModuleSourceVars[1]
        /\ (ModuleUpdateStep /\ uhkModulePhase = UhkModulePhase_SetLedPwmBrightness)
           => /\ BusOperation # <<>> <=> uhkModuleSourceVars[2] # uhkModuleTargetVars[2]
              /\ BusOperation # <<>>
                   => BusOperation = <<"tx", SlaveCommand_SetLedPwmBrightness,
                                       uhkModuleSourceVars[2]>>
              /\ BusOperation = <<>> => ReturnedStatus = kStatus_Uhk_NoTransfer
              /\ uhkModuleTargetVars'[2] = uhkModuleSourceVars[2]
        /\ \A i \in 1..2 :
              ( /\ uhkModuleTargetVars[i] = uhkModuleSourceVars[i]
                /\ ~ModuleVarsWrittenStep /\ ~ModuleInitStep )
              => uhkModuleTargetVars'[i] = uhkModuleSourceVars'[i]
      ]_vars

\* C15, its case: a pass through SetTestLed has switched the test LED on, and
\* the pass just made issued no transfer and returned the no-transfer status
C15_Witness ==
    /\ lastOp = "UhkModuleSlaveDriver_Update"
    /\ uhkModulePhase = UhkModulePhase_SetLedPwmBrightness
    /\ moduleOp = <<kStatus_Uhk_NoTransfer, <<>>, {}>>
    /\ uhkModuleSourceVars[1] /\ uhkModuleTargetVars[1]

\* the phase that follows a phase in the order of the phases
UhkModulePhaseAfter(phase) ==
    CASE phase = UhkModulePhase_RequestModuleFeatures -> UhkModulePhase_ReceiveModuleFeatures
      [] phase = UhkModulePhase_ReceiveModuleFeatures -> UhkModulePhase_ProcessModuleFeatures
      [] phase = UhkModulePhase_ProcessModuleFeatures -> UhkModulePhase_RequestKeyStates
      [] phase = UhkModulePhase_RequestKeyStates -> UhkModulePhase_ReceiveKeystates
      [] phase = UhkModulePhase_ReceiveKeystates -> UhkModulePhase_ProcessKeystates
      [] phase = UhkModulePhase_ProcessKeystates -> UhkModulePhase_SetTestLed
      [] phase = UhkModulePhase_SetTestLed -> UhkModulePhase_SetLedPwmBrightness
      [] phase = UhkModulePhase_SetLedPwmBrightness -> UhkModulePhase_RequestKeyStates

FeaturePhases ==
    {UhkModulePhase_RequestModuleFeatures, UhkModulePhase_ReceiveModuleFeatures,
     UhkModulePhase_ProcessModuleFeatures}

KeyStatesPhases ==
    {UhkModulePhase_RequestKeyStates, UhkModulePhase_ReceiveKeystates,
     UhkModulePhase_ProcessKeystates, UhkModulePhase_SetTestLed,
     UhkModulePhase_SetLedPwmBrightness}

\* a bus operation: one write of a message or one read
IsBusOperation(op) == op = <<"rx">> \/ (Len(op) \in 2..3 /\ op[1] = "tx")

\* C17: UhkModuleSlaveDriver_Init leaves phase RequestModuleFeatures; every
\* update call moves the phase by one step in the order RequestModuleFeatures,
\* ReceiveModuleFeatures, ProcessModuleFeatures, then round RequestKeyStates,
\* ReceiveKeystates, ProcessKeystates, SetTestLed, SetLedPwmBrightness, and
\* issues at most one bus operation; nothing else changes the phase; the phase
\* is always one of the eight; from the five phases of the cycle a feature
\* phase is entered by UhkModuleSlaveDriver_Init only.
C17_ModulePhaseSequence ==
    [][ /\ ModuleInitStep => uhkModulePhase' = UhkModulePhase_RequestModuleFeatures
        /\ ModuleUpdateStep
           => /\ uhkModulePhase' = UhkModulePhaseAfter(uhkModulePhase)
              /\ BusOperation = <<>> \/ IsBusOperation(BusOperation)
        /\ uhkModulePhase' # uhkModulePhase => ModuleInitStep \/ ModuleUpdateStep
        /\ uhkModulePhase' \in FeaturePhases \cup KeyStatesPhases
        /\ (uhkModulePhase \in KeyStatesPhases /\ uhkModulePhase' \in FeaturePhases)
           => ModuleInitStep
      ]_vars

\* C17, its case: the driver has gone round the cycle: its last update set the
\* brightness in SetLedPwmBrightness and went back to RequestKeyStates
C17_Witness ==
    /\ lastOp = "UhkModuleSlaveDriver_Update"
    /\ uhkModulePhase = UhkModulePhase_RequestKeyStates
    /\ moduleOp[2] = <<"tx", SlaveCommand_SetLedPwmBrightness, MAX_PWM_BRIGHTNESS>>

\* C16: an update of module i in phase ProcessKeystates writes only cells of
\* slot i + 1 of the key-state table, features.keyCount of them when the
\* message received is valid and none otherwise, and leaves slot 0 and the
\* slots of all other modules, and the memory after the table, unchanged; an
\* update in any other phase writes no cell of the table.
C16_SlotIsolation ==
    [][ ModuleUpdateStep
        => IF uhkModulePhase = UhkModulePhase_ProcessKeystates
           THEN /\ CellsWritten \subseteq SlotCells(uhkModuleDriverId + 1)
                /\ Cardinality(CellsWritten)
                      = IF CRC16_IsMessageValid(rxMessage) THEN keyCount ELSE 0
                /\ \A cell \in 1..KeyStatesCells :
                      cell \notin SlotCells(uhkModuleDriverId + 1)
                          => CurrentKeyStates'[cell] = CurrentKeyStates[cell]
           ELSE /\ CellsWritten = {}
                /\ CurrentKeyStates' = CurrentKeyStates
      ]_vars

\* the indices of the run [RunStart, RunEnd]
RunIndices == RunStart..RunEnd

\* C21: an update in phase Initialized issues a bus write iff at least one
\* index has source # target when it is called.  When none differs it issues
\* nothing, resets the cursor to 0 and leaves the phase and both tables
\* unchanged; when it transmits the run [start, end] it sets target[i] to
\* source[i] for every i in the run, leaves target[i] unchanged for every i
\* outside the run, and leaves the source table and the phase unchanged.
C21_InitializedFrameEffect ==
    [][ InitializedUpdateStep
        => /\ ledWrite' # <<>> <=> DifferingLedIndices # {}
           /\ ledDriverPhase' = LedDriverPhase_Initialized
           /\ sourceLedValues' = sourceLedValues
           /\ DifferingLedIndices = {}
              => /\ ledIndex' = 0
                 /\ targetLedValues' = targetLedValues
           /\ DifferingLedIndices # {}
              => LET run == RunIndices
                 IN targetLedValues' =
                        [i \in 1..LED_DRIVER_LED_COUNT |->
                            IF i - 1 \in run THEN sourceLedValues[i]
                            ELSE targetLedValues[i]]
      ]_vars

\* C21, its case: an update in phase Initialized has transmitted a run and
\* entries outside the run still differ
C21_Witness ==
    /\ RunWritten
    /\ ledCalls = 1
    /\ targetLedValues # sourceLedValues
    /\ \A i \in 1..Len(WrittenLedValues) :
          targetLedValues[WrittenStartLedIndex + i] = WrittenLedValues[i]

\* an LedSlaveDriver_Update step of a driver in phase InitLedValues
InitLedValuesUpdateStep ==
    /\ ledDriverPhase = LedDriverPhase_InitLedValues
    /\ lastOp' = "LedSlaveDriver_Update"

\* C24: each update in phase InitLedValues, which transmits
\* source[ledIndex .. ledIndex + PMW_REGISTER_UPDATE_CHUNK_SIZE - 1], leaves
\* target equal to source at those positions, so that with the source table
\* not written meanwhile the two tables are equal when Initialized is entered.
C24_BulkPushConfirmsChunks ==
    [][ InitLedValuesUpdateStep
        => /\ \A i \in (ledIndex + 1)..(ledIndex + PMW_REGISTER_UPDATE_CHUNK_SIZE) :
                 targetLedValues'[i] = sourceLedValues[i]
           /\ ledDriverPhase' = LedDriverPhase_Initialized
              => targetLedValues' = sourceLedValues'
      ]_vars

\* C23: when the bus write an update requests in phase SetTestLed or
\* SetLedPwmBrightness is not accepted (the asynchronous write returns a
\* status other than kStatus_Success), the target value is left unchanged, so
\* that source # target still holds at the next pass through the phase.
C23_TargetKeptWhenWriteRefused ==
    [][ ( /\ ModuleUpdateStep
          /\ uhkModulePhase \in {UhkModulePhase_SetTestLed,
                                 UhkModulePhase_SetLedPwmBrightness}
          /\ BusOperation # <<>>
          /\ ReturnedStatus # kStatus_Success )
        => uhkModuleTargetVars' = uhkModuleTargetVars
      ]_vars

\* C25: when the message received fails the crc check, an update in phase
\* ProcessModuleFeatures leaves features.keyCount unchanged and an update in
\* phase ProcessKeystates leaves the whole key-state table unchanged; both
\* return the no-transfer status, issue no bus operation and move to the phase
\* that follows as for a valid message.
C25_InvalidResponseDiscarded ==
    [][ ( /\ ModuleUpdateStep
          /\ uhkModulePhase \in {UhkModulePhase_ProcessModuleFeatures,
                                 UhkModulePhase_ProcessKeystates} )
        => /\ ReturnedStatus = kStatus_Uhk_NoTransfer
           /\ BusOperation = <<>>
           /\ uhkModulePhase' = UhkModulePhaseAfter(uhkModulePhase)
           /\ ~CRC16_IsMessageValid(rxMessage)
              => /\ keyCount' = keyCount
                 /\ CurrentKeyStates' = CurrentKeyStates
                 /\ CellsWritten = {}
                 /\ UNCHANGED <<uhkModuleTargetVars, uhkModuleSourceVars, rxMessage>>
      ]_vars

\* C25, its case: an update in phase ProcessKeystates has discarded a message
\* with an invalid crc and pressed keys, for a module that has keys
C25_Witness ==
    /\ lastOp = "UhkModuleSlaveDriver_Update"
    /\ uhkModulePhase = UhkModulePhase_SetTestLed
    /\ moduleOp = <<kStatus_Uhk_NoTransfer, <<>>, {}>>
    /\ ~CRC16_IsMessageValid(rxMessage)
    /\ rxMessage[2] = MaxKeyCount
    /\ keyCount = MAX_KEY_COUNT_PER_MODULE
    /\ CurrentKeyStates = KeyStatesReleased

----------------------------------------------------------------------------
(* Properties of the link session state *)

\* C26: in every state reached by calls of serial_packet_read,
\* serial_packet_write, serial_packet_abort (called with an Ack pending),
\* serial_packet_finalize and serial_send_ping_response, isAckNeeded and
\* isAckAbortNeeded are not both set; and when a serial_packet_write that
\* passes the argument check returns, both are clear.
C26_AckFlagsExclusive ==
    [][ /\ ~(isAckNeeded' /\ isAckAbortNeeded')
        /\ (CallReturns("write") /\ ValidWrite(call))
           => ~isAckNeeded' /\ ~isAckAbortNeeded'
      ]_vars

\* C26, its case: a write that passed the argument check has returned after
\* an abort had left an AckAbort pending
C26_Witness ==
    /\ lastOp = "write" /\ call = NoCall
    /\ status # kStatus_InvalidArgument
    /\ ~isAckNeeded /\ ~isAckAbortNeeded
    /\ Count(out, AckAbortSent) = 1

----------------------------------------------------------------------------
(* Properties of the LED driver under producers that keep writing *)

\* a producer writes an entry of the source table
SetLedValueStep == lastOp' = "SetLedValue"

\* entry i of the source table differs from the target table
LedStale(i) == sourceLedValues[i + 1] # targetLedValues[i + 1]

\* a bound on the transmitting updates left before entry i, which differs, is
\* in the run, with the cursor at index: the cursor climbs to i when the scan
\* reaches i before the table end, and otherwise climbs to the table end first
StarvationRank(index, i) ==
    IF MIN(index, LED_DRIVER_LED_COUNT - PMW_REGISTER_UPDATE_CHUNK_SIZE) <= i
    THEN IF i >= index THEN i - index ELSE 0
    ELSE (LED_DRIVER_LED_COUNT - index) + i + 1

\* an entry that no producer writes any more differs from the target table
LedStaleUnwritten ==
    \E i \in (0..(LED_DRIVER_LED_COUNT - 1)) \ LedValuesRewritten : LedStale(i)

\* C22: in phase Initialized, with the scheduler calling LedSlaveDriver_Update
\* again and again and producers writing other source entries at any time
\* between calls, every entry whose source differs from its target is
\* eventually in a transmitted run, the last entries of the table included:
\* an update puts the entry in its run, making its target equal to the source
\* value of that call, or brings the cursor strictly nearer to it, and a
\* producer's write moves neither the cursor nor the target, so that, again
\* and again, the entries the producers leave alone are all equal to their
\* source while other entries are written for ever; whenever the producers pause, target =
\* source is reached, and an update that finds target = source is idle.
C22_NoStarvation ==
    /\ [][ /\ InitializedUpdateStep
              => /\ \A i \in DifferingLedIndices :
                       \/ /\ i \in RunIndices
                          /\ targetLedValues'[i + 1] = sourceLedValues[i + 1]
                       \/ StarvationRank(ledIndex', i) < StarvationRank(ledIndex, i)
                 /\ DifferingLedIndices = {}
                    => /\ ledWrite' = <<>>
                       /\ targetLedValues' = sourceLedValues'
           /\ SetLedValueStep
              => /\ ledIndex' = ledIndex
                 /\ targetLedValues' = targetLedValues
         ]_vars
    /\ []<>(~LedStaleUnwritten)
    /\ []<>(targetLedValues = sourceLedValues \/ lastOp = "SetLedValue")

\* C22, its case: while a producer kept the first entry of the table stale,
\* an update has transmitted a run that ends with the last entry of the table
C22_Witness ==
    /\ RunWritten
    /\ WrittenStartLedIndex + Len(WrittenLedValues) = LED_DRIVER_LED_COUNT
    /\ LedStale(0)
    /\ ~LedStale(LED_DRIVER_LED_COUNT - 1)

====
